---------------------------- MODULE Spec2Model ----------------------------
(***************************************************************************)
(* Model of the memory subsystem (src/src/memory), of the knowledge base   *)
(* (src/src/knowledge) and of the REST toolkits (src/src/toolkits) of the  *)
(* marketing-automation application.                                       *)
(*                                                                         *)
(* The specifications share the variables:                                 *)
(*   SpecManager     - MultiLayerMemoryManager and its agno_memory wrappers*)
(*   SpecStore       - the two store operations of the manager alone       *)
(*   SpecContext     - the conversation context of a MemoryEnhancedAgent   *)
(*   SpecProvider    - the public API of the three memory providers        *)
(*   SpecRate        - the sleep-based rate limiter of one toolkit instance*)
(*   SpecRace        - the same rate limiter called by two threads         *)
(*   SpecTools       - the public tool operations of the three toolkits    *)
(*   SpecApollo      - the tool operations of ApolloToolkit                *)
(*   SpecCompare     - compare_technology_stacks on long lists of domains  *)
(*   SpecCompetitors - get_competitor_technologies                         *)
(*   SpecKnowledge   - building and filling the marketing knowledge base   *)
(*   SpecRetriever   - the knowledge context of RAGKnowledgeRetriever      *)
(***************************************************************************)
EXTENDS Integers, Sequences, FiniteSets, TLC

VARIABLES
    memory_provider,    \* settings.memory.memory_provider: "redis" | "sqlite"
    clock,              \* datetime.now(), in seconds
    redis,              \* the Redis database of RedisMemoryProvider
    short_db,           \* ./data/short_term_memory.db (table memory_entries)
    long_db,            \* ./data/long_term_memory.db (table memory_entries)
    chroma,             \* the ChromaDB collection "agno_memory"
    stored,             \* history of the entries handed to the providers
    last,               \* the last operation and what it returned
    nstores,            \* number of store operations so far
    nadvances,          \* number of clock advances so far
    provider,           \* the provider object a direct caller holds
    rate_limit,         \* settings.marketing_apis.<toolkit>_rate_limit
    toolkit,            \* which toolkit class the instance is
    time,               \* time.time(), in seconds
    last_request_time,  \* self.last_request_time
    pc,                 \* position of the caller inside _make_request
    elapsed,            \* local variable of _rate_limit_wait
    wake,               \* time at which the running time.sleep returns
    sends,              \* the HTTP requests sent so far
    api_key,            \* whether the toolkit's API key is configured
    tool_last,          \* the last tool operation and what it returned
    collection,         \* the ChromaDB collection "marketing_knowledge"
    kb_tasks,           \* the initialisation tasks scheduled and not yet run
    kb_last,            \* the last knowledge operation and what it returned
    callers             \* the two threads that share one toolkit instance

memVars  == <<memory_provider, clock, redis, short_db, long_db, chroma, stored,
              last, nstores, nadvances, provider>>
rateVars == <<rate_limit, toolkit, time, last_request_time, pc, elapsed, wake,
              sends>>
toolVars == <<api_key, tool_last>>
kbVars   == <<collection, kb_tasks, kb_last>>
raceVars == <<callers>>
vars     == <<memVars, rateVars, toolVars, kbVars, raceVars>>

---------------------------------------------------------------------------
(* Bounds of the model *)

MaxStores   == 2    \* store operations in one behaviour
MaxAdvances == 1    \* clock advances in one behaviour
MaxLimit    == 2    \* largest "limit" argument tried
MaxProviderStores == 1   \* direct provider store calls in one behaviour
MaxRequests == 3    \* HTTP requests of one toolkit instance
MaxTime     == 66   \* the clock of the rate limiter stops here
MaxDomains  == 2    \* longest list of domains compared
MaxCalls    == 3    \* HTTP outcomes chosen for one composite operation
MaxInteractions == 6    \* interactions remembered in one behaviour
MaxToolTime == 63   \* no tool operation sends a request after this time
MaxThreadRequests == 1   \* requests of each of the two concurrent callers

(* Program constants *)

ConversationTTL == 86400   \* ttl = 86400  # 24 hours
SecondsPerDay   == 86400   \* timedelta(days=days)
MaxCompared     == 10      \* domains = domains[:10]
MaxKeyTechnologies == 3    \* key_technologies = [...][:3]
ContextWindow   == 5       \* history[-5:]

---------------------------------------------------------------------------
(* Values *)

Sessions      == {"s1", "s2"}
Agents        == {"expert"}
UserInputs    == {"hi"}
Responses     == {"hello"}
CampaignIds   == {"c1"}
CampaignTypes == {"email", "social"}
EmptyDict     == [k \in {} |-> "none"]
Metadatas     == {EmptyDict, [k \in {"tag"} |-> "vip"]}
MetricsValues == {[k \in {"ctr"} |-> "5"]}
LessonsValues == {<<"short subject lines">>}

BaseFields == {"id", "content", "metadata", "timestamp", "memory_type"}

(* dataclass MemoryEntry *)
MemoryEntry(id, content, metadata, timestamp, memory_type) ==
    [id |-> id, content |-> content, metadata |-> metadata,
     timestamp |-> timestamp, memory_type |-> memory_type]

(* dataclass ConversationMemory(MemoryEntry); __post_init__ sets memory_type *)
ConversationMemory(id, content, metadata, timestamp, session_id, agent_name, user_input, agent_response) ==
    [id |-> id, content |-> content, metadata |-> metadata,
     timestamp |-> timestamp, memory_type |-> "conversation",
     session_id |-> session_id, agent_name |-> agent_name,
     user_input |-> user_input, agent_response |-> agent_response]

(* dataclass CampaignMemory(MemoryEntry); __post_init__ sets memory_type *)
CampaignMemoryEntry(id, content, metadata, timestamp, campaign_id, campaign_type, success_metrics, lessons_learned) ==
    [id |-> id, content |-> content, metadata |-> metadata,
     timestamp |-> timestamp, memory_type |-> "campaign",
     campaign_id |-> campaign_id, campaign_type |-> campaign_type,
     success_metrics |-> success_metrics, lessons_learned |-> lessons_learned]

(* datetime.isoformat / datetime.fromisoformat, json.dumps / json.loads *)
IsoFormat(t)     == <<"iso", t>>
FromIsoFormat(s) == s[2]
JsonDumps(v)     == <<"json", v>>
JsonLoads(s)     == s[2]

(* MemoryEntry.to_dict: every dataclass field, the timestamp as a string *)
ToDict(entry) ==
    [k \in DOMAIN entry |->
        IF k = "timestamp" THEN IsoFormat(entry.timestamp) ELSE entry[k]]

\* MemoryEntry.from_dict builds a plain MemoryEntry from the dictionary's keys;
\* a key that is no field of MemoryEntry makes the constructor raise TypeError
FromDictRaises(data) == DOMAIN data # BaseFields
FromDict(data) ==
    [k \in BaseFields |->
        IF k = "timestamp" THEN FromIsoFormat(data.timestamp) ELSE data[k]]

\* dict merge: the keys of g override those of f
Merge(f, g) ==
    [k \in DOMAIN f \cup DOMAIN g |-> IF k \in DOMAIN g THEN g[k] ELSE f[k]]

(* A set of entries as the list sorted by timestamp, most recent first *)
RECURSIVE SortedDesc(_)
SortedDesc(S) ==
    IF S = {} THEN <<>>
    ELSE LET e == CHOOSE x \in S : \A y \in S : y.timestamp <= x.timestamp
         IN  <<e>> \o SortedDesc(S \ {e})

(* list[:n] *)
Take(s, n) == IF Len(s) <= n THEN s ELSE SubSeq(s, 1, n)

Range(s) == {s[i] : i \in DOMAIN s}

(* The value every provider operation hands back to its caller *)
Outcome(st, ok, entries, raised, failed) ==
    [st |-> st, ok |-> ok, entries |-> entries, raised |-> raised,
     failed |-> failed]

---------------------------------------------------------------------------
(* RedisMemoryProvider.  The database is a set of string keys (kv), each   *)
(* with its value and, after SETEX, the time at which it expires, and one  *)
(* set of entry ids per memory type (index).  The argument fail is the     *)
(* number of the Redis call that raises (0: none does).                    *)

None == "None"

RedisKey(memory_type, entry_id) == <<memory_type, entry_id>>

\* Redis drops a key whose lifetime has elapsed
RedisExpire(r, now) ==
    [r EXCEPT !.kv = {x \in @ : ~x.volatile \/ now < x.expire_at}]

RedisGet(r, key) == {x \in r.kv : x.key = key}

RedisStore(r0, entry, now, fail) ==
    LET r    == RedisExpire(r0, now)
        key  == RedisKey(entry.memory_type, entry.id)
        data == JsonDumps(ToDict(entry))
        conv == entry.memory_type = "conversation"
        rec  == [key |-> key, data |-> data, volatile |-> conv,
                 expire_at |-> IF conv THEN now + ConversationTTL ELSE 0]
        afterSet == [r EXCEPT !.kv = {x \in @ : x.key # key} \cup {rec}]
        afterAdd == [afterSet EXCEPT
                        !.index = @ \cup {<<entry.memory_type, entry.id>>}]
    IN  CASE fail = 1 -> Outcome(r, FALSE, <<>>, FALSE, TRUE)
          [] fail = 2 -> Outcome(afterSet, FALSE, <<>>, FALSE, TRUE)
          [] OTHER    -> Outcome(afterAdd, TRUE, <<>>, FALSE, FALSE)

\* RedisMemoryProvider._matches_query
MatchesQuery(entry, query) ==
    \A key \in DOMAIN query \ {"memory_type"} :
        /\ ~(key \in DOMAIN entry /\ entry[key] # query[key])
        /\ ~(key \in DOMAIN entry.metadata /\ entry.metadata[key] # query[key])

RedisRetrieve(r0, query, limit, now, fail) ==
    LET r     == RedisExpire(r0, now)
        mtype == IF "memory_type" \in DOMAIN query THEN query.memory_type
                 ELSE None
        ids   == {i[2] : i \in {x \in r.index : x[1] = mtype}}
        found == UNION {RedisGet(r, RedisKey(mtype, id)) : id \in ids}
        dicts == {JsonLoads(x.data) : x \in found}
        match == {e \in {FromDict(d) : d \in dicts} : MatchesQuery(e, query)}
    IN  CASE mtype = None -> Outcome(r, FALSE, <<>>, FALSE, FALSE)
          [] fail = 1 -> Outcome(r, FALSE, <<>>, FALSE, TRUE)
          [] fail = 2 /\ ids # {} -> Outcome(r, FALSE, <<>>, FALSE, TRUE)
          [] \E d \in dicts : FromDictRaises(d) ->
                         Outcome(r, FALSE, <<>>, FALSE, FALSE)
          [] OTHER    -> Outcome(r, FALSE, Take(SortedDesc(match), limit),
                                 FALSE, FALSE)

RedisDelete(r0, entry_id, now, fail) ==
    LET r     == RedisExpire(r0, now)
        order == <<"conversation", "campaign", "vector">>
        hits  == {i \in 1..3 : RedisGet(r, RedisKey(order[i], entry_id)) # {}}
        first == CHOOSE i \in hits : \A j \in hits : i <= j
        key   == RedisKey(order[first], entry_id)
        afterDel  == [r EXCEPT !.kv = {x \in @ : x.key # key}]
        afterSrem == [afterDel EXCEPT !.index = @ \ {<<order[first], entry_id>>}]
    IN  CASE fail = 1  -> Outcome(r, FALSE, <<>>, FALSE, TRUE)
          [] hits = {} -> Outcome(r, FALSE, <<>>, FALSE, FALSE)
          [] fail = 2  -> Outcome(afterDel, FALSE, <<>>, FALSE, TRUE)
          [] OTHER     -> Outcome(afterSrem, TRUE, <<>>, FALSE, FALSE)

RedisClear(r0, memory_type, now, fail) ==
    LET r == RedisExpire(r0, now)
        afterKeys  == [r EXCEPT !.kv = {x \in @ : x.key[1] # memory_type}]
        afterIndex == [afterKeys EXCEPT
                          !.index = {x \in @ : x[1] # memory_type}]
        empty == [kv |-> {}, index |-> {}]
    IN  CASE fail = 1 -> Outcome(r, FALSE, <<>>, FALSE, TRUE)
          [] memory_type # None /\ fail = 2 ->
                         Outcome(afterKeys, FALSE, <<>>, FALSE, TRUE)
          [] memory_type # None -> Outcome(afterIndex, TRUE, <<>>, FALSE, FALSE)
          [] fail = 2 /\ (r.kv # {} \/ r.index # {}) ->
                         Outcome(r, FALSE, <<>>, FALSE, TRUE)
          [] OTHER    -> Outcome(empty, TRUE, <<>>, FALSE, FALSE)

---------------------------------------------------------------------------
(* SQLiteMemoryProvider.  The database is the set of rows of table         *)
(* memory_entries (id is the primary key).  Every operation is one         *)
(* transaction: fail = 1 makes it raise and leaves the table unchanged.    *)

SQLiteStore(db, entry, fail) ==
    LET row == [id |-> entry.id, memory_type |-> entry.memory_type,
                content |-> entry.content,
                metadata |-> JsonDumps(entry.metadata),
                timestamp |-> IsoFormat(entry.timestamp)]
    IN  IF fail = 1 THEN Outcome(db, FALSE, <<>>, FALSE, TRUE)
        ELSE Outcome({x \in db : x.id # row.id} \cup {row}, TRUE, <<>>,
                     FALSE, FALSE)

\* SQLiteRetrieve without its try/except: the sqlite3 error reaches the caller
SQLiteRetrieveNoCatch(db, query, limit, fail) ==
    LET rows == IF "memory_type" \in DOMAIN query
                THEN {x \in db : x.memory_type = query.memory_type}
                ELSE db
        entry_dict(row) == [id |-> row.id, content |-> row.content,
                            metadata |-> JsonLoads(row.metadata),
                            timestamp |-> row.timestamp,
                            memory_type |-> row.memory_type]
        entries == {FromDict(entry_dict(row)) : row \in rows}
    IN  IF fail = 1 THEN Outcome(db, FALSE, <<>>, TRUE, TRUE)
        ELSE Outcome(db, FALSE, Take(SortedDesc(entries), limit), FALSE, FALSE)

SQLiteRetrieve(db, query, limit, fail) ==
    LET rows == IF "memory_type" \in DOMAIN query
                THEN {x \in db : x.memory_type = query.memory_type}
                ELSE db
        entry_dict(row) == [id |-> row.id, content |-> row.content,
                            metadata |-> JsonLoads(row.metadata),
                            timestamp |-> row.timestamp,
                            memory_type |-> row.memory_type]
        entries == {FromDict(entry_dict(row)) : row \in rows}
    IN  IF fail = 1 THEN Outcome(db, FALSE, <<>>, FALSE, TRUE)
        ELSE Outcome(db, FALSE, Take(SortedDesc(entries), limit), FALSE, FALSE)

SQLiteDelete(db, entry_id, fail) ==
    IF fail = 1 THEN Outcome(db, FALSE, <<>>, FALSE, TRUE)
    ELSE Outcome({x \in db : x.id # entry_id},
                 \E x \in db : x.id = entry_id, <<>>, FALSE, FALSE)

SQLiteClear(db, memory_type, fail) ==
    IF fail = 1 THEN Outcome(db, FALSE, <<>>, FALSE, TRUE)
    ELSE Outcome(IF memory_type # None
                 THEN {x \in db : x.memory_type # memory_type} ELSE {},
                 TRUE, <<>>, FALSE, FALSE)

---------------------------------------------------------------------------
(* VectorMemoryProvider.  The collection is a set of items (id, embedding, *)
(* metadata, document).  fail is the number of the call (embedding model   *)
(* or ChromaDB) that raises.                                               *)

\* SentenceTransformer.encode: equal texts have equal embeddings
Encode(text) == <<"embedding", text>>
Distance(a, b) == IF a = b THEN 0 ELSE 1

VectorStore(c, entry, fail) ==
    LET item == [id |-> entry.id, embedding |-> Encode(entry.content),
                 metadata |-> Merge([memory_type |-> entry.memory_type,
                                     timestamp |-> IsoFormat(entry.timestamp)],
                                    entry.metadata),
                 document |-> entry.content]
    IN  CASE fail # 0 -> Outcome(c, FALSE, <<>>, FALSE, TRUE)
          [] \E x \in c : x.id = entry.id ->
                         Outcome(c, TRUE, <<>>, FALSE, FALSE)
          [] OTHER    -> Outcome(c \cup {item}, TRUE, <<>>, FALSE, FALSE)

\* collection.query: the n_results items nearest to the query embedding
RECURSIVE Nearest(_, _)
Nearest(S, q) ==
    IF S = {} THEN <<>>
    ELSE LET x == CHOOSE y \in S : \A z \in S :
                      Distance(y.embedding, q) <= Distance(z.embedding, q)
         IN  <<x>> \o Nearest(S \ {x}, q)

VectorRetrieve(c, query, limit, fail) ==
    LET query_text == IF "content" \in DOMAIN query THEN query.content ELSE <<>>
        items == IF "memory_type" \in DOMAIN query
                 THEN {x \in c : x.metadata.memory_type = query.memory_type}
                 ELSE c
        res   == Take(Nearest(items, Encode(query_text)), limit)
        entry(x) == MemoryEntry(x.id, x.document,
                        [k \in DOMAIN x.metadata \ {"memory_type", "timestamp"}
                            |-> x.metadata[k]],
                        FromIsoFormat(x.metadata.timestamp),
                        x.metadata.memory_type)
    IN  CASE query_text = <<>> -> Outcome(c, FALSE, <<>>, FALSE, FALSE)
          [] fail # 0 -> Outcome(c, FALSE, <<>>, FALSE, TRUE)
          [] OTHER    -> Outcome(c, FALSE, [i \in DOMAIN res |-> entry(res[i])],
                                 FALSE, FALSE)

VectorDelete(c, entry_id, fail) ==
    IF fail # 0 THEN Outcome(c, FALSE, <<>>, FALSE, TRUE)
    ELSE Outcome({x \in c : x.id # entry_id}, TRUE, <<>>, FALSE, FALSE)

\* clear(None) deletes the collection and creates it again: when the second
\* call raises the collection is gone (fail = 2)
VectorClear(c, memory_type, fail) ==
    CASE fail = 1 -> Outcome(c, FALSE, <<>>, FALSE, TRUE)
      [] memory_type # None ->
            Outcome({x \in c : x.metadata.memory_type # memory_type}, TRUE,
                    <<>>, FALSE, FALSE)
      [] fail = 2 -> Outcome({}, FALSE, <<>>, FALSE, TRUE)
      [] OTHER    -> Outcome({}, TRUE, <<>>, FALSE, FALSE)

---------------------------------------------------------------------------
(* MultiLayerMemoryManager and the wrappers of agno_memory.py              *)

FailPoints  == 0..2      \* which backend call raises, 0 for none
Limits      == 1..MaxLimit
AdvanceSteps == {1, ConversationTTL - 1}

\* providers["short_term"]: Redis or SQLite, by settings.memory.memory_provider
ShortTermStore(entry, fail) ==
    IF memory_provider = "redis" THEN RedisStore(redis, entry, clock, fail)
    ELSE SQLiteStore(short_db, entry, fail)

ShortTermRetrieve(query, limit, fail) ==
    IF memory_provider = "redis"
    THEN RedisRetrieve(redis, query, limit, clock, fail)
    ELSE SQLiteRetrieve(short_db, query, limit, fail)

\* any(isinstance(r, bool) and r for r in results) over the gathered results
GatherAll(results) ==
    \A i \in DOMAIN results : ~results[i].raised /\ results[i].ok

GatherAny(results) ==
    \E i \in DOMAIN results : ~results[i].raised /\ results[i].ok

\* asyncio.gather(..., return_exceptions=True): a provider call that raises
\* becomes an exception object in the results and the gather itself never raises
Gathered(out) == [ok |-> out.ok /\ ~out.raised, raised |-> out.raised]
GatherRaises(results, return_exceptions) ==
    ~return_exceptions /\ \E i \in DOMAIN results : results[i].raised

StoreConversation(session_id, agent_name, user_input, agent_response, metadata, fs, fv) ==
    LET entry == ConversationMemory(<<session_id, clock>>,
                     <<"User: ", user_input, "\nAgent: ", agent_response>>,
                     metadata, clock, session_id, agent_name, user_input,
                     agent_response)
        short == ShortTermStore(entry, fs)
        vec   == VectorStore(chroma, entry, fv)
        results == <<Gathered(short), Gathered(vec)>>
    IN  /\ nstores < MaxStores
        /\ redis' = IF memory_provider = "redis" THEN short.st ELSE redis
        /\ short_db' = IF memory_provider = "redis" THEN short_db ELSE short.st
        /\ chroma' = vec.st
        /\ stored' = stored \cup {[entry |-> entry, at |-> clock,
                                   first_ok |-> short.ok, vector_ok |-> vec.ok]}
        /\ last' = [at |-> clock, op |-> "store_conversation", id |-> entry.id,
                    results |-> results, ok |-> GatherAny(results),
                    raised |-> GatherRaises(results, TRUE)]
        /\ nstores' = nstores + 1
        /\ clock' = clock + 1
        /\ UNCHANGED <<memory_provider, long_db, nadvances, provider>>

StoreCampaignMemory(campaign_id, campaign_type, success_metrics, lessons_learned, metadata, fl, fv) ==
    LET content == <<"Campaign: ", campaign_type, "\nMetrics: ",
                     success_metrics, "\nLessons: ", lessons_learned>>
        entry == CampaignMemoryEntry(<<"campaign", campaign_id, clock>>,
                     content, metadata, clock, campaign_id, campaign_type,
                     success_metrics, lessons_learned)
        long  == SQLiteStore(long_db, entry, fl)
        vec   == VectorStore(chroma, entry, fv)
        results == <<Gathered(long), Gathered(vec)>>
    IN  /\ nstores < MaxStores
        /\ long_db' = long.st
        /\ chroma' = vec.st
        /\ stored' = stored \cup {[entry |-> entry, at |-> clock,
                                   first_ok |-> long.ok, vector_ok |-> vec.ok]}
        /\ last' = [at |-> clock, op |-> "store_campaign_memory", id |-> entry.id,
                    results |-> results, ok |-> GatherAny(results),
                    raised |-> GatherRaises(results, TRUE)]
        /\ nstores' = nstores + 1
        /\ clock' = clock + 1
        /\ UNCHANGED <<memory_provider, redis, short_db, nadvances, provider>>

\* MarketingMemory.get_conversation_history over the manager's method
GetConversationHistory(session_id, limit, fail) ==
    LET query == [memory_type |-> "conversation", session_id |-> session_id]
        out   == ShortTermRetrieve(query, limit, fail)
        history == [i \in DOMAIN out.entries |->
                       [content |-> out.entries[i].content,
                        timestamp |-> out.entries[i].timestamp,
                        metadata |-> out.entries[i].metadata]]
    IN  /\ redis' = IF memory_provider = "redis" THEN out.st ELSE redis
        /\ last' = [at |-> clock, op |-> "get_conversation_history",
                    session_id |-> session_id, limit |-> limit,
                    entries |-> out.entries, history |-> history,
                    failed |-> out.failed, raised |-> out.raised]
        /\ UNCHANGED <<memory_provider, clock, short_db, long_db, chroma,
                       stored, nstores, nadvances, provider>>

\* getattr(memory, name, default)
Getattr(entry, name, default) ==
    IF name \in DOMAIN entry THEN entry[name] ELSE default

\* CampaignMemory.get_campaign_insights over retrieve_campaign_insights
GetCampaignInsights(campaign_type, limit, fail) ==
    LET base  == [memory_type |-> "campaign"]
        query == IF campaign_type # None
                 THEN Merge(base, [campaign_type |-> campaign_type]) ELSE base
        out   == SQLiteRetrieve(long_db, query, limit, fail)
        insight(m) == [campaign_id |-> Getattr(m, "campaign_id", "unknown"),
                       campaign_type |-> Getattr(m, "campaign_type", "unknown"),
                       metrics |-> Getattr(m, "success_metrics", EmptyDict),
                       lessons |-> Getattr(m, "lessons_learned", <<>>),
                       timestamp |-> m.timestamp, metadata |-> m.metadata]
    IN  /\ last' = [at |-> clock, op |-> "get_campaign_insights",
                    campaign_type |-> campaign_type, limit |-> limit,
                    entries |-> out.entries,
                    insights |-> [i \in DOMAIN out.entries |->
                                     insight(out.entries[i])],
                    failed |-> out.failed, raised |-> out.raised]
        /\ UNCHANGED <<memory_provider, clock, redis, short_db, long_db,
                       chroma, stored, nstores, nadvances, provider>>

\* cleanup_old_conversations: computes the cutoff and returns True
CleanupOldConversations(days) ==
    LET cutoff == clock - days * SecondsPerDay
    IN  /\ last' = [at |-> clock, op |-> "cleanup_old_conversations", days |-> days,
                    cutoff |-> cutoff, ok |-> TRUE, raised |-> FALSE]
        /\ UNCHANGED <<memory_provider, clock, redis, short_db, long_db,
                       chroma, stored, nstores, nadvances, provider>>

\* time passes
Advance(d) ==
    /\ nadvances < MaxAdvances
    /\ clock' = clock + d
    /\ nadvances' = nadvances + 1
    /\ UNCHANGED <<memory_provider, redis, short_db, long_db, chroma, stored,
                   last, nstores, provider>>

\* no knowledge base has been built
KbIdle ==
    /\ collection = {}
    /\ kb_tasks = <<>>
    /\ kb_last = [op |-> "init"]

\* no thread is inside _make_request
Threads == {1, 2}

RaceIdle == callers = [t \in Threads |-> [pc |-> "idle", elapsed |-> 0, wake |-> 0, stamp |-> 0, requests |-> 0]]

MemInit ==
    /\ memory_provider \in {"redis", "sqlite"}
    /\ clock = 0
    /\ redis = [kv |-> {}, index |-> {}]
    /\ short_db = {}
    /\ long_db = {}
    /\ chroma = {}
    /\ stored = {}
    /\ last = [op |-> "init"]
    /\ nstores = 0
    /\ nadvances = 0
    /\ provider = "manager"

RateIdle ==
    /\ rate_limit = 60
    /\ toolkit = "apollo"
    /\ time = 0
    /\ last_request_time = 0
    /\ pc = "idle"
    /\ elapsed = 0
    /\ wake = 0
    /\ sends = <<>>

ToolIdle ==
    /\ api_key = TRUE
    /\ tool_last = [op |-> "init"]
    /\ KbIdle
    /\ RaceIdle

DoStoreConversation ==
    \E s \in Sessions, a \in Agents, u \in UserInputs, r \in Responses,
       fs \in FailPoints, fv \in 0..1 :
        /\ StoreConversation(s, a, u, r, EmptyDict, fs, fv)
        /\ UNCHANGED <<rateVars, toolVars, kbVars, raceVars>>

DoStoreCampaignMemory ==
    \E c \in CampaignIds, t \in CampaignTypes, sm \in MetricsValues,
       l \in LessonsValues, fl \in 0..1, fv \in 0..1 :
        /\ StoreCampaignMemory(c, t, sm, l, EmptyDict, fl, fv)
        /\ UNCHANGED <<rateVars, toolVars, kbVars, raceVars>>

DoGetConversationHistory ==
    \E s \in Sessions, n \in Limits, f \in 0..1 :
        /\ GetConversationHistory(s, n, f)
        /\ UNCHANGED <<rateVars, toolVars, kbVars, raceVars>>

DoGetCampaignInsights ==
    \E t \in CampaignTypes \cup {None}, n \in Limits, f \in 0..1 :
        /\ GetCampaignInsights(t, n, f)
        /\ UNCHANGED <<rateVars, toolVars, kbVars, raceVars>>

DoCleanupOldConversations ==
    \E days \in 0..1 :
        /\ CleanupOldConversations(days)
        /\ UNCHANGED <<rateVars, toolVars, kbVars, raceVars>>

DoAdvance ==
    \E d \in AdvanceSteps :
        /\ Advance(d)
        /\ UNCHANGED <<rateVars, toolVars, kbVars, raceVars>>

InitManager == MemInit /\ RateIdle /\ ToolIdle

NextManager ==
    \/ DoStoreConversation
    \/ DoStoreCampaignMemory
    \/ DoGetConversationHistory
    \/ DoGetCampaignInsights
    \/ DoCleanupOldConversations
    \/ DoAdvance

SpecManager ==
    InitManager /\ [][NextManager]_vars

\* the two store operations alone
NextStore ==
    \/ DoStoreConversation
    \/ DoStoreCampaignMemory

SpecStore ==
    InitManager /\ [][NextStore]_vars

---------------------------------------------------------------------------
(* The public API of the three providers, called directly.  The SQLite     *)
(* provider instance is the one on long_db.                                *)

Providers == {"redis", "sqlite", "vector"}

\* Redis operations make two calls that can raise, the others one
ProviderFailPoints(p) == IF p = "redis" THEN 0..2 ELSE 0..1
EntryIds  == {"e1", "e2"}
Note      == <<"note">>

\* the entries a caller builds at time now: plain MemoryEntry objects of two
\* memory types and CampaignMemory objects (ConversationMemory objects reach
\* the providers through store_conversation)
ProviderEntries(now) ==
    {MemoryEntry(id, Note, EmptyDict, now, t) :
         id \in EntryIds, t \in {"conversation", "campaign"}}
    \cup {CampaignMemoryEntry("e1", Note, EmptyDict, now, "c1", "email", EmptyDict, <<>>)}

ProviderQueries ==
    {[memory_type |-> "conversation"], [memory_type |-> "campaign"],
     [content |-> Note], [content |-> Note, memory_type |-> "campaign"]}

ProviderState(p) ==
    CASE p = "redis" -> redis [] p = "sqlite" -> long_db [] OTHER -> chroma

\* the backends after provider p moved to state st
SetProviderState(p, st) ==
    /\ redis' = IF p = "redis" THEN st ELSE redis
    /\ long_db' = IF p = "sqlite" THEN st ELSE long_db
    /\ chroma' = IF p = "vector" THEN st ELSE chroma

SameSlot(r, p, entry) ==
    /\ r.provider = p
    /\ r.entry.id = entry.id
    /\ p = "redis" => r.entry.memory_type = entry.memory_type

ProviderStore(p, entry, fail) ==
    LET out == CASE p = "redis"  -> RedisStore(redis, entry, clock, fail)
                 [] p = "sqlite" -> SQLiteStore(long_db, entry, fail)
                 [] OTHER        -> VectorStore(chroma, entry, fail)
        kept == IF p = "vector" /\ ~out.failed THEN stored
                ELSE {r \in stored : ~SameSlot(r, p, entry)}
        new  == IF out.ok /\ ~\E r \in kept : SameSlot(r, p, entry)
                THEN {[provider |-> p, entry |-> entry, at |-> clock]}
                ELSE {}
    IN  /\ nstores < MaxProviderStores
        /\ SetProviderState(p, out.st)
        /\ stored' = kept \cup new
        /\ last' = [at |-> clock, op |-> "store", provider |-> p, ok |-> out.ok,
                    entries |-> out.entries, failed |-> out.failed,
                    raised |-> out.raised]
        /\ nstores' = nstores + 1
        /\ UNCHANGED <<memory_provider, clock, short_db, nadvances, provider>>

ProviderRetrieve(p, query, limit, fail) ==
    LET out == CASE p = "redis"  ->
                        RedisRetrieve(redis, query, limit, clock, fail)
                 [] p = "sqlite" -> SQLiteRetrieve(long_db, query, limit, fail)
                 [] OTHER        -> VectorRetrieve(chroma, query, limit, fail)
    IN  /\ SetProviderState(p, out.st)
        /\ last' = [at |-> clock, op |-> "retrieve", provider |-> p, ok |-> out.ok,
                    entries |-> out.entries, failed |-> out.failed,
                    raised |-> out.raised, query |-> query, limit |-> limit]
        /\ UNCHANGED <<memory_provider, clock, short_db, stored, nstores,
                       nadvances, provider>>

ProviderDelete(p, entry_id, fail) ==
    LET out == CASE p = "redis"  -> RedisDelete(redis, entry_id, clock, fail)
                 [] p = "sqlite" -> SQLiteDelete(long_db, entry_id, fail)
                 [] OTHER        -> VectorDelete(chroma, entry_id, fail)
    IN  /\ SetProviderState(p, out.st)
        /\ stored' = {r \in stored :
                         ~(r.provider = p /\ r.entry.id = entry_id)}
        /\ last' = [at |-> clock, op |-> "delete", provider |-> p, ok |-> out.ok,
                    entries |-> out.entries, failed |-> out.failed,
                    raised |-> out.raised]
        /\ UNCHANGED <<memory_provider, clock, short_db, nstores, nadvances, provider>>

ProviderClear(p, memory_type, fail) ==
    LET out == CASE p = "redis"  -> RedisClear(redis, memory_type, clock, fail)
                 [] p = "sqlite" -> SQLiteClear(long_db, memory_type, fail)
                 [] OTHER        -> VectorClear(chroma, memory_type, fail)
    IN  /\ SetProviderState(p, out.st)
        /\ stored' = {r \in stored :
                         ~(/\ r.provider = p
                           /\ memory_type \in {None, r.entry.memory_type})}
        /\ last' = [at |-> clock, op |-> "clear", provider |-> p, ok |-> out.ok,
                    entries |-> out.entries, failed |-> out.failed,
                    raised |-> out.raised]
        /\ UNCHANGED <<memory_provider, clock, short_db, nstores, nadvances, provider>>

ProviderLimits  == {1, MaxLimit}
ProviderAdvance == {ConversationTTL - 1, ConversationTTL}

DoProviderStore ==
    \E e \in ProviderEntries(clock), f \in ProviderFailPoints(provider) :
        /\ ProviderStore(provider, e, f)
        /\ UNCHANGED <<rateVars, toolVars, kbVars, raceVars>>

DoProviderRetrieve ==
    \E q \in ProviderQueries, n \in ProviderLimits,
       f \in ProviderFailPoints(provider) :
        /\ ProviderRetrieve(provider, q, n, f)
        /\ UNCHANGED <<rateVars, toolVars, kbVars, raceVars>>

DoProviderDelete ==
    \E id \in EntryIds, f \in ProviderFailPoints(provider) :
        /\ ProviderDelete(provider, id, f)
        /\ UNCHANGED <<rateVars, toolVars, kbVars, raceVars>>

DoProviderClear ==
    \E t \in {None, "conversation", "campaign"}, f \in 0..2 :
        /\ ProviderClear(provider, t, f)
        /\ UNCHANGED <<rateVars, toolVars, kbVars, raceVars>>

\* time passes, up to one lifetime of a conversation key
DoProviderAdvance ==
    \E d \in ProviderAdvance :
        /\ clock + d <= ConversationTTL
        /\ clock' = clock + d
        /\ UNCHANGED <<memory_provider, redis, short_db, long_db, chroma,
                       stored, last, nstores, nadvances, provider>>
        /\ UNCHANGED <<rateVars, toolVars, kbVars, raceVars>>

InitProvider ==
    /\ memory_provider = "redis"
    /\ clock = 0
    /\ redis = [kv |-> {}, index |-> {}]
    /\ short_db = {}
    /\ long_db = {}
    /\ chroma = {}
    /\ stored = {}
    /\ last = [op |-> "init"]
    /\ nstores = 0
    /\ nadvances = 0
    /\ provider \in Providers
    /\ RateIdle
    /\ ToolIdle

NextProvider ==
    \/ DoProviderStore
    \/ DoProviderRetrieve
    \/ DoProviderDelete
    \/ DoProviderClear
    \/ DoProviderAdvance

SpecProvider == InitProvider /\ [][NextProvider]_vars

---------------------------------------------------------------------------
(* MemoryEnhancedAgent: remember_interaction and get_conversation_context  *)
(* over MarketingMemory and the memory manager. Every agent has its own    *)
(* session; the k-th message of a behaviour has the text <<"msg", k>>.     *)

ContextLimits == {5, 10}      \* limit: the window itself and the default

\* list[::-1]
Reverse(s) == [i \in 1..Len(s) |-> s[Len(s) + 1 - i]]

\* list[-n:]
LastN(s, n) == IF Len(s) <= n THEN s ELSE SubSeq(s, Len(s) - n + 1, Len(s))

\* "\n".join(lines)
RECURSIVE Join(_)
Join(lines) ==
    IF Len(lines) <= 1 THEN lines
    ELSE <<Head(lines), "\n">> \o Join(Tail(lines))

\* remember_interaction -> MarketingMemory.add_memory -> store_conversation
\* with the session of the agent; whatever is raised is caught and logged
RememberInteraction(session_id, agent_name, response) ==
    LET user_input == <<"msg", clock + 1>>
        entry == ConversationMemory(<<session_id, clock>>,
                     <<"User: ", user_input, "\nAgent: ", response>>,
                     EmptyDict, clock, session_id, agent_name, user_input,
                     response)
        short == ShortTermStore(entry, 0)
        vec   == VectorStore(chroma, entry, 0)
        results == <<Gathered(short), Gathered(vec)>>
    IN  /\ nstores < MaxInteractions
        /\ redis' = IF memory_provider = "redis" THEN short.st ELSE redis
        /\ short_db' = IF memory_provider = "redis" THEN short_db ELSE short.st
        /\ chroma' = vec.st
        /\ stored' = stored \cup {[entry |-> entry, at |-> clock,
                                   first_ok |-> short.ok, vector_ok |-> vec.ok]}
        /\ last' = [at |-> clock, op |-> "remember_interaction",
                    id |-> entry.id, ok |-> GatherAny(results),
                    raised |-> FALSE]
        /\ nstores' = nstores + 1
        /\ clock' = clock + 1
        /\ UNCHANGED <<memory_provider, long_db, nadvances, provider>>

\* history = get_conversation_history(limit); without history the fixed
\* message, otherwise "\n".join(content of reversed(history[-5:]))
GetConversationContext(session_id, limit, fail) ==
    LET query == [memory_type |-> "conversation", session_id |-> session_id]
        out   == ShortTermRetrieve(query, limit, fail)
        history == [i \in DOMAIN out.entries |->
                       [content |-> out.entries[i].content,
                        timestamp |-> out.entries[i].timestamp,
                        metadata |-> out.entries[i].metadata]]
        window == Reverse(LastN(history, ContextWindow))
        context == IF history = <<>>
                      THEN <<"No previous conversation history.">>
                      ELSE Join([i \in DOMAIN window |-> window[i].content])
    IN  /\ redis' = IF memory_provider = "redis" THEN out.st ELSE redis
        /\ last' = [at |-> clock, op |-> "get_conversation_context",
                    session_id |-> session_id, limit |-> limit,
                    history |-> history, context |-> context,
                    failed |-> out.failed, raised |-> out.raised]
        /\ UNCHANGED <<memory_provider, clock, short_db, long_db, chroma,
                       stored, nstores, nadvances, provider>>

DoRememberInteraction ==
    \E s \in Sessions, a \in Agents, r \in Responses :
        /\ RememberInteraction(s, a, r)
        /\ UNCHANGED <<rateVars, toolVars, kbVars, raceVars>>

DoGetConversationContext ==
    \E s \in Sessions, n \in ContextLimits, f \in 0..1 :
        /\ GetConversationContext(s, n, f)
        /\ UNCHANGED <<rateVars, toolVars, kbVars, raceVars>>

NextContext ==
    \/ DoRememberInteraction
    \/ DoGetConversationContext

SpecContext == InitManager /\ [][NextContext]_vars

---------------------------------------------------------------------------
(* The rate limiter of one toolkit instance                                *)
(* (ApolloToolkit, HubSpotToolkit, BuiltWithToolkit: _rate_limit_wait and  *)
(* the part of _make_request around it). One caller makes one request      *)
(* after another; time is counted in whole seconds and passes between any  *)
(* two statements.                                                         *)

Toolkits   == {"apollo", "hubspot", "builtwith"}
RateLimits == {20, 30, 60}     \* requests per minute; 60 / rate_limit exact
StartTimes == {60, 61}         \* time.time() when the instance is created

\* min_interval of _rate_limit_wait
MinInterval ==
    IF toolkit = "builtwith" THEN 1 ELSE 60 \div rate_limit

\* the memory subsystem is not used by the toolkits
MemIdle ==
    /\ memory_provider = "redis"
    /\ clock = 0
    /\ redis = [kv |-> {}, index |-> {}]
    /\ short_db = {}
    /\ long_db = {}
    /\ chroma = {}
    /\ stored = {}
    /\ last = [op |-> "init"]
    /\ nstores = 0
    /\ nadvances = 0
    /\ provider = "manager"

\* __init__: rate_limit from the settings, last_request_time = 0
RateInit ==
    /\ toolkit \in Toolkits
    /\ rate_limit \in (IF toolkit = "builtwith" THEN {None} ELSE RateLimits)
    /\ time \in StartTimes
    /\ last_request_time = 0
    /\ pc = "idle"
    /\ elapsed = 0
    /\ wake = 0
    /\ sends = <<>>
    /\ api_key \in BOOLEAN
    /\ tool_last = [op |-> "init"]
    /\ KbIdle
    /\ RaceIdle

\* _make_request is entered: without an API key it raises ValueError before
\* the rate limiter is reached
MakeRequest ==
    /\ pc = "idle"
    /\ Len(sends) < MaxRequests
    /\ pc' = IF api_key THEN "wait" ELSE "raised"
    /\ UNCHANGED <<rate_limit, toolkit, time, last_request_time, elapsed,
                   wake, sends>>
    /\ UNCHANGED <<memVars, toolVars, kbVars, raceVars>>

\* the rate limiter without its sleep: the elapsed time is read and the
\* request goes ahead at once
ReadElapsedNoSleep ==
    /\ pc = "wait"
    /\ elapsed' = time - last_request_time
    /\ wake' = wake
    /\ pc' = "stamp"
    /\ UNCHANGED <<rate_limit, toolkit, time, last_request_time, sends>>
    /\ UNCHANGED <<memVars, toolVars, kbVars, raceVars>>

\* elapsed = time.time() - self.last_request_time;
\* if elapsed < min_interval: time.sleep(min_interval - elapsed)
ReadElapsed ==
    /\ pc = "wait"
    /\ elapsed' = time - last_request_time
    /\ IF elapsed' < MinInterval
          THEN /\ wake' = time + (MinInterval - elapsed')
               /\ pc' = "sleep"
          ELSE /\ wake' = wake
               /\ pc' = "stamp"
    /\ UNCHANGED <<rate_limit, toolkit, time, last_request_time, sends>>
    /\ UNCHANGED <<memVars, toolVars, kbVars, raceVars>>

\* time.sleep returns, not before the requested time has passed
Wake ==
    /\ pc = "sleep"
    /\ time >= wake
    /\ pc' = "stamp"
    /\ UNCHANGED <<rate_limit, toolkit, time, last_request_time, elapsed,
                   wake, sends>>
    /\ UNCHANGED <<memVars, toolVars, kbVars, raceVars>>

\* self.last_request_time = time.time()
Stamp ==
    /\ pc = "stamp"
    /\ last_request_time' = time
    /\ pc' = "send"
    /\ UNCHANGED <<rate_limit, toolkit, time, elapsed, wake, sends>>
    /\ UNCHANGED <<memVars, toolVars, kbVars, raceVars>>

\* url and headers are built and requests.get / post / patch / delete sends
\* the HTTP request
Send ==
    /\ pc = "send"
    /\ sends' = Append(sends, [at      |-> time,
                               stamped |-> last_request_time,
                               slept   |-> elapsed < MinInterval])
    /\ pc' = "inflight"
    /\ UNCHANGED <<rate_limit, toolkit, time, last_request_time, elapsed,
                   wake>>
    /\ UNCHANGED <<memVars, toolVars, kbVars, raceVars>>

\* the response (or a RequestException) arrives, or the ValueError has
\* propagated: _make_request is left and the caller may call again
Return ==
    /\ pc \in {"inflight", "raised"}
    /\ pc' = "idle"
    /\ UNCHANGED <<rate_limit, toolkit, time, last_request_time, elapsed,
                   wake, sends>>
    /\ UNCHANGED <<memVars, toolVars, kbVars, raceVars>>

\* one second passes
Tick ==
    /\ time < MaxTime
    /\ time' = time + 1
    /\ UNCHANGED <<rate_limit, toolkit, last_request_time, pc, elapsed, wake,
                   sends>>
    /\ UNCHANGED <<memVars, toolVars, kbVars, raceVars>>

InitRate == MemIdle /\ RateInit

(* Two threads call _make_request on the same toolkit instance: elapsed is  *)
(* a local variable of each, last_request_time is shared, and nothing       *)
(* keeps the two from running _rate_limit_wait at the same time.            *)

ThreadMakeRequest(t) ==
    /\ callers[t].pc = "idle"
    /\ callers[t].requests < MaxThreadRequests
    /\ callers' = [callers EXCEPT ![t].pc = IF api_key THEN "wait" ELSE "raised",
                                  ![t].requests = @ + 1]
    /\ UNCHANGED <<time, last_request_time, sends>>

ThreadReadElapsed(t) ==
    /\ callers[t].pc = "wait"
    /\ LET e == time - last_request_time
       IN  callers' = [callers EXCEPT
                         ![t].elapsed = e,
                         ![t].wake = IF e < MinInterval
                                        THEN time + (MinInterval - e) ELSE @,
                         ![t].pc = IF e < MinInterval THEN "sleep" ELSE "stamp"]
    /\ UNCHANGED <<time, last_request_time, sends>>

ThreadWake(t) ==
    /\ callers[t].pc = "sleep"
    /\ time >= callers[t].wake
    /\ callers' = [callers EXCEPT ![t].pc = "stamp"]
    /\ UNCHANGED <<time, last_request_time, sends>>

ThreadStamp(t) ==
    /\ callers[t].pc = "stamp"
    /\ last_request_time' = time
    /\ callers' = [callers EXCEPT ![t].pc = "send", ![t].stamp = time]
    /\ UNCHANGED <<time, sends>>

ThreadSend(t) ==
    /\ callers[t].pc = "send"
    /\ sends' = Append(sends, [at      |-> time,
                               stamped |-> callers[t].stamp,
                               slept   |-> callers[t].elapsed < MinInterval,
                               by      |-> t])
    /\ callers' = [callers EXCEPT ![t].pc = "inflight"]
    /\ UNCHANGED <<time, last_request_time>>

ThreadReturn(t) ==
    /\ callers[t].pc \in {"inflight", "raised"}
    /\ callers' = [callers EXCEPT ![t].pc = "idle"]
    /\ UNCHANGED <<time, last_request_time, sends>>

\* one step of one of the two threads
ThreadStep ==
    \E t \in Threads :
        /\ \/ ThreadMakeRequest(t)
           \/ ThreadReadElapsed(t)
           \/ ThreadWake(t)
           \/ ThreadStamp(t)
           \/ ThreadSend(t)
           \/ ThreadReturn(t)
        /\ UNCHANGED <<rate_limit, toolkit, pc, elapsed, wake>>
        /\ UNCHANGED <<memVars, toolVars, kbVars>>

NextRace ==
    \/ ThreadStep
    \/ Tick

SpecRace == InitRate /\ [][NextRace]_vars

NextRate ==
    \/ MakeRequest
    \/ ReadElapsed
    \/ Wake
    \/ Stamp
    \/ Send
    \/ Return
    \/ Tick

SpecRate == InitRate /\ [][NextRate]_vars

---------------------------------------------------------------------------
(* The public tool operations of the three toolkits. Every operation is    *)
(* one action; the outcome of each HTTP request it makes is an input.      *)

\* what a request can meet: a response with data, a response without the
\* data asked for, an HTTP error status (raise_for_status), a connection
\* error, a body that is not JSON (response.json() raises)
HttpOutcomes == {"ok", "empty", "http_error", "conn_error", "not_json"}
HttpFailures == {"http_error", "conn_error", "not_json"}

\* _make_request(...): raises ValueError without an API key, re-raises the
\* RequestException of requests, otherwise returns the decoded body
MakeRequestResult(h) ==
    [raised |-> ~api_key \/ h \in HttpFailures,
     error  |-> IF ~api_key THEN "API key not configured" ELSE h,
     sent   |-> IF api_key THEN 1 ELSE 0,
     json   |-> h]

\* what a tool operation hands back: the returned dictionary, whether
\* something failed underneath, and the number of HTTP requests it sent
ToolOutcome(result, failed, sent) ==
    [result |-> result, failed |-> failed, sent |-> sent]

\* the same for an operation built on other tool operations, with the calls
\* it made to them, in order
CompositeOutcome(result, failed, sent, calls) ==
    [result |-> result, failed |-> failed, sent |-> sent, calls |-> calls]

\* one call of a tool operation by another, and the dictionary it returned
Call(op, arg, result) == [op |-> op, arg |-> arg, result |-> result]

Max(a, b) == IF a >= b THEN a ELSE b

\* send times of n requests made one after another through
\* _rate_limit_wait with no other delay in between
RequestTimes(n) ==
    [i \in 1..n |->
        Max(time, last_request_time + MinInterval) + (i - 1) * MinInterval]

\* the effect of those n requests on the rate limiter
Requests(n) ==
    /\ n > 0 => RequestTimes(n)[n] <= MaxToolTime
    /\ time' = IF n = 0 THEN time ELSE RequestTimes(n)[n]
    /\ last_request_time' = IF n = 0 THEN last_request_time
                                     ELSE RequestTimes(n)[n]
    /\ sends' = sends \o
          [i \in 1..n |->
              [at      |-> RequestTimes(n)[i],
               stamped |-> RequestTimes(n)[i],
               slept   |-> (i > 1) \/ (time - last_request_time < MinInterval)]]
    /\ UNCHANGED <<rate_limit, toolkit, pc, elapsed, wake>>

\* a tool operation returns to the agent
ToolReturn(op, args, out) ==
    /\ tool_last' = [op     |-> op,
                     args   |-> args,
                     result |-> out.result,
                     raised |-> FALSE,
                     failed |-> out.failed,
                     sent   |-> out.sent,
                     calls  |-> IF "calls" \in DOMAIN out THEN out.calls
                                                          ELSE <<>>]
    /\ Requests(out.sent)
    /\ UNCHANGED <<api_key, memVars, kbVars, raceVars>>

\* data held by the remote services
Domains      == {"a.com", "b.com"}
ToolLimits   == 1..MaxLimit
RemotePeople == <<[id |-> "p1", name |-> "Ann", email |-> "ann@a.com"]>>
Org(d)       == [id |-> d, name |-> d, domain |-> d, industry |-> "saas"]
RemoteOrgs   == <<Org("a.com"), Org("b.com"), Org("c.com")>>

(* ApolloToolkit *)

SearchPeople(h) ==
    LET r == MakeRequestResult(h) IN
    IF r.raised
       THEN ToolOutcome([contacts |-> <<>>, error |-> r.error], TRUE, r.sent)
       ELSE ToolOutcome(
              [contacts      |-> IF h = "ok" THEN RemotePeople ELSE <<>>,
               total_entries |-> IF h = "ok" THEN Len(RemotePeople) ELSE 0,
               page          |-> 1,
               per_page      |-> 25,
               num_pages     |-> IF h = "ok" THEN 1 ELSE 0],
              FALSE, r.sent)

SearchOrganizations(h) ==
    LET r == MakeRequestResult(h) IN
    IF r.raised
       THEN ToolOutcome([companies |-> <<>>, error |-> r.error], TRUE, r.sent)
       ELSE ToolOutcome(
              [companies     |-> IF h = "ok" THEN RemoteOrgs ELSE <<>>,
               total_entries |-> IF h = "ok" THEN Len(RemoteOrgs) ELSE 0,
               page          |-> 1,
               per_page      |-> 25,
               num_pages     |-> IF h = "ok" THEN 1 ELSE 0],
              FALSE, r.sent)

EnrichContact(h) ==
    LET r == MakeRequestResult(h) IN
    IF r.raised
       THEN ToolOutcome([contact |-> None, enriched |-> FALSE,
                         error |-> r.error], TRUE, r.sent)
       ELSE IF h = "ok"
          THEN ToolOutcome([contact |-> RemotePeople[1], enriched |-> TRUE],
                           FALSE, r.sent)
          ELSE ToolOutcome([contact |-> None, enriched |-> FALSE,
                            message |-> "Contact not found"], FALSE, r.sent)

EnrichCompany(domain, h) ==
    LET r == MakeRequestResult(h) IN
    IF r.raised
       THEN ToolOutcome([company |-> None, enriched |-> FALSE,
                         error |-> r.error], TRUE, r.sent)
       ELSE IF h = "ok"
          THEN ToolOutcome([company |-> Org(domain), enriched |-> TRUE],
                           FALSE, r.sent)
          ELSE ToolOutcome([company |-> None, enriched |-> FALSE,
                            message |-> "Company not found"], FALSE, r.sent)

GetContactDetails(h) ==
    LET r == MakeRequestResult(h) IN
    IF r.raised
       THEN ToolOutcome([contact |-> None, found |-> FALSE,
                         error |-> r.error], TRUE, r.sent)
       ELSE IF h = "ok"
          THEN ToolOutcome([contact |-> RemotePeople[1], found |-> TRUE],
                           FALSE, r.sent)
          ELSE ToolOutcome([contact |-> None, found |-> FALSE,
                            message |-> "Contact not found"], FALSE, r.sent)

\* the search answer as it is, the reference company included
KeepAll(s, d) == s

\* [x for x in s if x.domain != d]
WithoutDomain(s, d) ==
    SelectSeq(s, LAMBDA c : c.domain # d)

\* enrich_company, then search_organizations, then the reference company is
\* filtered out and the list is cut to limit
FindSimilarCompanies(company_domain, limit, h1, h2) ==
    LET company_data == EnrichCompany(company_domain, h1)
        enrich == Call("enrich_company", company_domain, company_data.result)
    IN
    IF ~company_data.result.enriched
       THEN CompositeOutcome([companies |-> <<>>,
                              error |-> "Reference company not found"],
                             company_data.failed, company_data.sent,
                             <<enrich>>)
       ELSE LET result  == SearchOrganizations(h2)
                similar == WithoutDomain(result.result.companies,
                                         company_domain)
            IN  CompositeOutcome(
                  [companies         |-> Take(similar, limit),
                   reference_company |-> company_data.result.company,
                   total_found       |-> Len(similar)],
                  company_data.failed \/ result.failed,
                  company_data.sent + result.sent,
                  <<enrich, Call("search_organizations", limit,
                                 result.result)>>)

DoSearchPeople ==
    \E h \in HttpOutcomes :
        /\ toolkit = "apollo"
        /\ ToolReturn("search_people", <<>>, SearchPeople(h))

DoSearchOrganizations ==
    \E h \in HttpOutcomes :
        /\ toolkit = "apollo"
        /\ ToolReturn("search_organizations", <<>>, SearchOrganizations(h))

DoEnrichContact ==
    \E h \in HttpOutcomes :
        /\ toolkit = "apollo"
        /\ ToolReturn("enrich_contact", <<>>, EnrichContact(h))

DoEnrichCompany ==
    \E d \in Domains, h \in HttpOutcomes :
        /\ toolkit = "apollo"
        /\ ToolReturn("enrich_company", <<d>>, EnrichCompany(d, h))

DoGetContactDetails ==
    \E h \in HttpOutcomes :
        /\ toolkit = "apollo"
        /\ ToolReturn("get_contact_details", <<>>, GetContactDetails(h))

DoFindSimilarCompanies ==
    \E d \in Domains, n \in ToolLimits, h1 \in HttpOutcomes, h2 \in HttpOutcomes :
        /\ toolkit = "apollo"
        /\ ToolReturn("find_similar_companies", <<d, n>>,
                      FindSimilarCompanies(d, n, h1, h2))

(* HubSpotToolkit *)

RemoteContacts == <<[id |-> "h1", email |-> "ann@a.com", lifecyclestage |-> "lead"]>>
RemoteDeal     == [id |-> "d1", dealname |-> "renewal", dealstage |-> "open"]
RemotePipelines == <<[id |-> "default", label |-> "Sales", stages |-> <<>>]>>

SearchContacts(query, h) ==
    LET r == MakeRequestResult(h) IN
    IF r.raised
       THEN ToolOutcome([contacts |-> <<>>, total |-> 0, error |-> r.error],
                        TRUE, r.sent)
       ELSE ToolOutcome(
              [contacts |-> IF h = "ok" THEN RemoteContacts ELSE <<>>,
               total    |-> IF h = "ok" THEN Len(RemoteContacts) ELSE 0,
               query    |-> query],
              FALSE, r.sent)

\* the body of the response is used as it comes: without "id" and
\* "properties" the contact has no field, and created is True all the same
CreateContact(h) ==
    LET r == MakeRequestResult(h) IN
    IF r.raised
       THEN ToolOutcome([contact |-> None, created |-> FALSE,
                         error |-> r.error], TRUE, r.sent)
       ELSE ToolOutcome(
              [contact |-> IF h = "ok" THEN RemoteContacts[1] ELSE EmptyDict,
               created |-> TRUE,
               id      |-> IF h = "ok" THEN RemoteContacts[1].id ELSE None],
              FALSE, r.sent)

UpdateContact(h) ==
    LET r == MakeRequestResult(h) IN
    IF r.raised
       THEN ToolOutcome([contact |-> None, updated |-> FALSE,
                         error |-> r.error], TRUE, r.sent)
       ELSE ToolOutcome(
              [contact |-> IF h = "ok" THEN RemoteContacts[1] ELSE EmptyDict,
               updated |-> TRUE],
              FALSE, r.sent)

CreateDeal(h) ==
    LET r == MakeRequestResult(h) IN
    IF r.raised
       THEN ToolOutcome([deal |-> None, created |-> FALSE, error |-> r.error],
                        TRUE, r.sent)
       ELSE ToolOutcome(
              [deal    |-> IF h = "ok" THEN RemoteDeal ELSE EmptyDict,
               created |-> TRUE,
               id      |-> IF h = "ok" THEN RemoteDeal.id ELSE None],
              FALSE, r.sent)

GetDealPipeline(h) ==
    LET r == MakeRequestResult(h) IN
    IF r.raised
       THEN ToolOutcome([pipelines |-> <<>>, error |-> r.error], TRUE, r.sent)
       ELSE ToolOutcome(
              [pipelines |-> IF h = "ok" THEN RemotePipelines ELSE <<>>],
              FALSE, r.sent)

SearchCompanies(query, h) ==
    LET r == MakeRequestResult(h) IN
    IF r.raised
       THEN ToolOutcome([companies |-> <<>>, total |-> 0, error |-> r.error],
                        TRUE, r.sent)
       ELSE ToolOutcome(
              [companies |-> IF h = "ok" THEN RemoteOrgs ELSE <<>>,
               total     |-> IF h = "ok" THEN Len(RemoteOrgs) ELSE 0,
               query     |-> query],
              FALSE, r.sent)

\* on failure the dictionary holds the key "error" and nothing else
GetContactAnalytics(h) ==
    LET r == MakeRequestResult(h)
        contacts == IF h = "ok" THEN RemoteContacts ELSE <<>>
    IN
    IF r.raised
       THEN ToolOutcome([error |-> r.error], TRUE, r.sent)
       ELSE ToolOutcome(
              [total_contacts   |-> Len(contacts),
               lifecycle_stages |-> IF h = "ok" THEN [lead |-> 1] ELSE EmptyDict,
               lead_statuses    |-> IF h = "ok" THEN [Unknown |-> 1] ELSE EmptyDict,
               recent_contacts  |-> Len(contacts)],
              FALSE, r.sent)

Queries == {"ann", None}

DoSearchContacts ==
    \E q \in Queries, h \in HttpOutcomes :
        /\ toolkit = "hubspot"
        /\ ToolReturn("search_contacts", <<q>>, SearchContacts(q, h))

DoCreateContact ==
    \E h \in HttpOutcomes :
        /\ toolkit = "hubspot"
        /\ ToolReturn("create_contact", <<>>, CreateContact(h))

DoUpdateContact ==
    \E h \in HttpOutcomes :
        /\ toolkit = "hubspot"
        /\ ToolReturn("update_contact", <<>>, UpdateContact(h))

DoCreateDeal ==
    \E h \in HttpOutcomes :
        /\ toolkit = "hubspot"
        /\ ToolReturn("create_deal", <<>>, CreateDeal(h))

DoGetDealPipeline ==
    \E h \in HttpOutcomes :
        /\ toolkit = "hubspot"
        /\ ToolReturn("get_deal_pipeline", <<>>, GetDealPipeline(h))

DoSearchCompanies ==
    \E q \in Queries, h \in HttpOutcomes :
        /\ toolkit = "hubspot"
        /\ ToolReturn("search_companies", <<q>>, SearchCompanies(q, h))

DoGetContactAnalytics ==
    \E h \in HttpOutcomes :
        /\ toolkit = "hubspot"
        /\ ToolReturn("get_contact_analytics", <<>>, GetContactAnalytics(h))

(* BuiltWithToolkit *)

Tech(name, category) == [name |-> name, category |-> category]

\* the technology profile the remote service holds for a domain
RemoteTech(domain) ==
    IF domain = "a.com" THEN <<Tech("GA", "Analytics"), Tech("WP", "CMS")>>
    ELSE IF domain = "b.com" THEN <<Tech("GA", "Analytics"), Tech("Nginx", "Web Server")>>
    ELSE IF domain = "d.com" THEN <<Tech("GA", "Analytics"), Tech("WP", "CMS"), Tech("Shopify", "E-commerce"), Tech("Mailchimp", "Marketing")>>
    ELSE <<Tech("GA", "Analytics")>>

\* the sites the remote service lists for a technology
RemoteUsers(technology) ==
    IF technology = "GA" THEN <<"a.com", "b.com", "c.com">>
    ELSE IF technology = "WP" THEN <<"a.com", "c.com">>
    ELSE IF technology = "Shopify" THEN <<"d.com", "c.com", "b.com">>
    ELSE <<>>

Technologies  == {"GA", "WP"}
KeyCategories == {"Analytics", "CMS", "E-commerce", "Marketing"}

\* categories[category_name] += 1 for every technology of the category
CountCategories(techs) ==
    [c \in {techs[i].category : i \in DOMAIN techs} |->
        Cardinality({i \in DOMAIN techs : techs[i].category = c})]

GetDomainTechnologies(domain, h) ==
    LET r == MakeRequestResult(h) IN
    IF r.raised
       THEN ToolOutcome([domain |-> domain, technologies |-> <<>>,
                         categories |-> EmptyDict, total_technologies |-> 0,
                         error |-> r.error], TRUE, r.sent)
       ELSE IF h = "empty"
          THEN ToolOutcome([domain |-> domain, technologies |-> <<>>,
                            categories |-> EmptyDict, total_technologies |-> 0,
                            error |-> "No data found for domain"],
                           FALSE, r.sent)
          ELSE ToolOutcome([domain |-> domain,
                            technologies |-> RemoteTech(domain),
                            categories |-> CountCategories(RemoteTech(domain)),
                            total_technologies |-> Len(RemoteTech(domain)),
                            profile_date |-> None],
                           FALSE, r.sent)

FindCompaniesUsingTechnology(technology, limit, h) ==
    LET r == MakeRequestResult(h)
        users == Take(RemoteUsers(technology), limit)
        companies == IF h = "ok"
                        THEN [i \in DOMAIN users |-> [domain |-> users[i]]]
                        ELSE <<>>
    IN
    IF r.raised
       THEN ToolOutcome([technology |-> technology, companies |-> <<>>,
                         total_found |-> 0, error |-> r.error], TRUE, r.sent)
       ELSE ToolOutcome([technology |-> technology, companies |-> companies,
                         total_found |-> Len(companies),
                         country_filter |-> None], FALSE, r.sent)

GetTechnologyTrends(technology, h) ==
    LET r == MakeRequestResult(h) IN
    IF r.raised
       THEN ToolOutcome([technology |-> technology, trends |-> <<>>,
                         error |-> r.error], TRUE, r.sent)
       ELSE IF h = "empty"
          THEN ToolOutcome([technology |-> technology, trends |-> <<>>,
                            error |-> "No trend data available"],
                           FALSE, r.sent)
          ELSE ToolOutcome([technology |-> technology,
                            trends |-> <<[date |-> "2024-01", count |-> 7]>>,
                            period_months |-> 12,
                            latest_count |-> 7], FALSE, r.sent)

GetMarketShare(technology, h) ==
    LET r == MakeRequestResult(h) IN
    IF r.raised
       THEN ToolOutcome([technology |-> technology, market_share |-> 0,
                         error |-> r.error], TRUE, r.sent)
       ELSE IF h = "empty"
          THEN ToolOutcome([technology |-> technology, market_share |-> 0,
                            rank |-> None,
                            error |-> "No market data available"],
                           FALSE, r.sent)
          ELSE ToolOutcome([technology |-> technology, market_share |-> 40,
                            total_sites |-> 7, rank |-> 1,
                            vertical |-> None, last_updated |-> "2024-01"],
                           FALSE, r.sent)

\* the outcome of the i-th request of one operation
Nth(hs, i) == hs[((i - 1) % Len(hs)) + 1]

\* sum(f[i] for i in 1..n)
RECURSIVE SumTo(_, _)
SumTo(f, n) == IF n = 0 THEN 0 ELSE f[n] + SumTo(f, n - 1)

\* the first position of every domain of the list: the keys of a dictionary
\* filled in the order of the list
RECURSIVE FirstOccurrences(_)
FirstOccurrences(s) ==
    IF s = <<>> THEN <<>>
    ELSE LET rest == FirstOccurrences(SubSeq(s, 1, Len(s) - 1))
         IN  IF \E i \in 1..(Len(s) - 1) : s[i] = s[Len(s)]
                THEN rest
                ELSE Append(rest, s[Len(s)])

\* the list as it is given, however long
AllDomains(domains) == domains

\* if len(domains) > 10: domains = domains[:10]
LimitDomains(domains) == IF Len(domains) > MaxCompared THEN SubSeq(domains, 1, MaxCompared) ELSE domains

\* domains[:10]; one lookup per domain; the domains whose lookup returned an
\* error are left out; the comparison is returned without the key "error"
CompareTechnologyStacks(domains, hs) ==
    LET ds       == LimitDomains(domains)
        lookup   == [i \in DOMAIN ds |->
                        GetDomainTechnologies(ds[i], Nth(hs, i))]
        \* profiles[domain] = profile: a later lookup of the same domain
        \* replaces the profile and keeps the position
        good     == {i \in DOMAIN ds : "error" \notin DOMAIN lookup[i].result}
        LastGood(d) == CHOOSE i \in good :
                          ds[i] = d /\ \A j \in good : ds[j] = d => j <= i
        keys     == FirstOccurrences(SelectSeq(
                        [i \in DOMAIN ds |-> IF i \in good THEN ds[i] ELSE None],
                        LAMBDA d : d # None))
        profile  == [d \in Range(keys) |-> lookup[LastGood(d)].result]
        NamesOf(d) == {profile[d].technologies[i].name :
                          i \in DOMAIN profile[d].technologies}
        \* all_technologies collects the names of every good lookup
        all      == UNION {{lookup[i].result.technologies[k].name :
                               k \in DOMAIN lookup[i].result.technologies} :
                           i \in good}
        With(t)  == {d \in Range(keys) : t \in NamesOf(d)}
        common   == {t \in all : Cardinality(With(t)) = Len(keys)}
        unique   == [d \in {e \in Range(keys) :
                               \E t \in all \ common : With(t) = {e}} |->
                        {t \in all \ common : With(t) = {d}}]
    IN  CompositeOutcome(
          [domains             |-> keys,
           technology_matrix   |-> [t \in all |->
                                      [d \in Range(keys) |-> t \in NamesOf(d)]],
           common_technologies |-> common,
           unique_technologies |-> unique,
           category_comparison |-> [d \in Range(keys) |-> profile[d].categories]],
          \E i \in DOMAIN ds : lookup[i].failed,
          SumTo([i \in DOMAIN ds |-> lookup[i].sent], Len(ds)),
          [i \in DOMAIN ds |->
              Call("get_domain_technologies", ds[i], lookup[i].result)])

\* for company in tech_companies["companies"]: a new domain other than the
\* reference is appended with [tech]; a known domain gets tech appended
RECURSIVE AddCompanies(_, _, _, _)
AddCompanies(competitors, companies, tech, reference_domain) ==
    IF companies = <<>> THEN competitors
    ELSE LET domain == Head(companies).domain
             known  == \E i \in DOMAIN competitors :
                          competitors[i].domain = domain
             next   ==
                 IF domain # reference_domain /\ ~known
                    THEN Append(competitors,
                                [domain |-> domain,
                                 shared_technologies |-> <<tech>>])
                 ELSE IF known
                    THEN [i \in DOMAIN competitors |->
                            IF competitors[i].domain = domain
                               THEN [competitors[i] EXCEPT
                                       !.shared_technologies = Append(@, tech)]
                               ELSE competitors[i]]
                 ELSE competitors
         IN  AddCompanies(next, Tail(companies), tech, reference_domain)

\* for tech in key_technologies: find_companies_using_technology(tech, ...)
RECURSIVE CollectCompetitors(_, _, _, _)
CollectCompetitors(found, key, k, reference_domain) ==
    IF k = 0 THEN <<>>
    ELSE AddCompanies(CollectCompetitors(found, key, k - 1, reference_domain),
                      found[k].result.companies, key[k], reference_domain)

\* sorted(..., key=number of shared technologies, reverse=True): stable
RECURSIVE SortByShared(_)
SortByShared(s) ==
    IF s = <<>> THEN <<>>
    ELSE LET i == CHOOSE i \in DOMAIN s :
                    /\ \A j \in DOMAIN s :
                          Len(s[j].shared_technologies)
                              <= Len(s[i].shared_technologies)
                    /\ \A j \in 1..(i - 1) :
                          Len(s[j].shared_technologies)
                              < Len(s[i].shared_technologies)
         IN  <<s[i]>> \o SortByShared(
                 SubSeq(s, 1, i - 1) \o SubSeq(s, i + 1, Len(s)))

\* the names of all the technologies of a key category
EveryKeyTechnology(technologies) == LET keytechs == SelectSeq(technologies, LAMBDA t : t.category \in KeyCategories) IN [i \in DOMAIN keytechs |-> keytechs[i].name]

\* key_technologies: the names of the first three technologies of the
\* reference profile that belong to a key category
KeyTechnologies(technologies) == LET keytechs == SelectSeq(technologies, LAMBDA t : t.category \in KeyCategories) IN Take([i \in DOMAIN keytechs |-> keytechs[i].name], MaxKeyTechnologies)

GetCompetitorTechnologies(reference_domain, limit, hs) ==
    LET ref == GetDomainTechnologies(reference_domain, Nth(hs, 1)) IN
    IF "error" \in DOMAIN ref.result
       THEN ToolOutcome([error |-> "Could not analyze reference domain"],
                        ref.failed, ref.sent)
       ELSE
        LET key      == KeyTechnologies(ref.result.technologies)
            found    == [k \in DOMAIN key |->
                            FindCompaniesUsingTechnology(key[k], limit * 2,
                                                         Nth(hs, 1 + k))]
            top      == Take(SortByShared(
                            CollectCompetitors(found, key, Len(key),
                                               reference_domain)), limit)
            lookup   == [j \in DOMAIN top |->
                            GetDomainTechnologies(top[j].domain,
                                                  Nth(hs, 1 + Len(key) + j))]
            entry    == [j \in DOMAIN top |->
                          [domain                |-> top[j].domain,
                           shared_technologies   |-> top[j].shared_technologies,
                           total_technologies    |-> lookup[j].result.total_technologies,
                           technology_categories |-> lookup[j].result.categories,
                           technologies          |-> lookup[j].result.technologies,
                           skipped               |-> "error" \in DOMAIN lookup[j].result]]
            kept     == SelectSeq(entry, LAMBDA e : ~e.skipped)
        IN  ToolOutcome(
              [reference_domain       |-> reference_domain,
               reference_technologies |-> Len(ref.result.technologies),
               competitors            |-> kept,
               analysis_based_on      |-> key],
              \/ ref.failed
              \/ \E k \in DOMAIN key : found[k].failed
              \/ \E j \in DOMAIN top : lookup[j].failed,
              ref.sent + SumTo([k \in DOMAIN key |-> found[k].sent], Len(key))
                       + SumTo([j \in DOMAIN top |-> lookup[j].sent], Len(top)))

DomainLists   == UNION {[1..n -> Domains] : n \in 0..MaxDomains}
OutcomeLists  == [1..MaxCalls -> HttpOutcomes]

DoGetDomainTechnologies ==
    \E d \in Domains, h \in HttpOutcomes :
        /\ toolkit = "builtwith"
        /\ ToolReturn("get_domain_technologies", <<d>>,
                      GetDomainTechnologies(d, h))

DoFindCompaniesUsingTechnology ==
    \E t \in Technologies, n \in ToolLimits, h \in HttpOutcomes :
        /\ toolkit = "builtwith"
        /\ ToolReturn("find_companies_using_technology", <<t, n>>,
                      FindCompaniesUsingTechnology(t, n, h))

DoGetTechnologyTrends ==
    \E t \in Technologies, h \in HttpOutcomes :
        /\ toolkit = "builtwith"
        /\ ToolReturn("get_technology_trends", <<t>>,
                      GetTechnologyTrends(t, h))

DoGetMarketShare ==
    \E t \in Technologies, h \in HttpOutcomes :
        /\ toolkit = "builtwith"
        /\ ToolReturn("get_market_share", <<t>>, GetMarketShare(t, h))

DoCompareTechnologyStacks ==
    \E ds \in DomainLists, hs \in OutcomeLists :
        /\ toolkit = "builtwith"
        /\ ToolReturn("compare_technology_stacks", <<ds>>,
                      CompareTechnologyStacks(ds, hs))

DoGetCompetitorTechnologies ==
    \E d \in Domains, n \in ToolLimits, hs \in OutcomeLists :
        /\ toolkit = "builtwith"
        /\ ToolReturn("get_competitor_technologies", <<d, n>>,
                      GetCompetitorTechnologies(d, n, hs))

\* lists about as long as the cut of compare_technology_stacks: a run of
\* one domain followed by a run of another
LongDomainLists ==
    {[i \in 1..n |-> IF i <= k THEN d ELSE e] :
        n \in (MaxCompared - 1)..(MaxCompared + MaxDomains - 1),
        k \in {0, MaxCompared - 1, MaxCompared},
        d \in Domains, e \in Domains}

\* the outcomes of the requests of one long comparison: two, in turn
OutcomePairs == [1..2 -> HttpOutcomes]

DoCompareManyStacks ==
    \E ds \in LongDomainLists, hs \in OutcomePairs :
        /\ toolkit = "builtwith"
        /\ ToolReturn("compare_technology_stacks", <<ds>>,
                      CompareTechnologyStacks(ds, hs))

\* the competitors of the domains above and of a domain with four key
\* technologies
ReferenceDomains == Domains \cup {"d.com"}

DoAnalyseCompetitors ==
    \E d \in ReferenceDomains, n \in ToolLimits, hs \in OutcomePairs :
        /\ toolkit = "builtwith"
        /\ ToolReturn("get_competitor_technologies", <<d, n>>,
                      GetCompetitorTechnologies(d, n, hs))

InitTools == MemIdle /\ RateInit

\* one BuiltWithToolkit instance with time left for one long comparison
InitCompare ==
    /\ MemIdle
    /\ toolkit = "builtwith"
    /\ rate_limit = None
    /\ time = MaxToolTime - MaxCompared - 1
    /\ last_request_time = 0
    /\ pc = "idle"
    /\ elapsed = 0
    /\ wake = 0
    /\ sends = <<>>
    /\ api_key \in BOOLEAN
    /\ tool_last = [op |-> "init"]
    /\ KbIdle
    /\ RaceIdle

SpecCompare == InitCompare /\ [][DoCompareManyStacks]_vars

SpecCompetitors == InitCompare /\ [][DoAnalyseCompetitors]_vars

\* one ApolloToolkit instance and its six tool operations
InitApollo == InitTools /\ toolkit = "apollo"

NextApollo ==
    \/ DoSearchPeople
    \/ DoSearchOrganizations
    \/ DoEnrichContact
    \/ DoEnrichCompany
    \/ DoGetContactDetails
    \/ DoFindSimilarCompanies

SpecApollo == InitApollo /\ [][NextApollo]_vars

NextTools ==
    \/ DoSearchPeople
    \/ DoSearchOrganizations
    \/ DoEnrichContact
    \/ DoEnrichCompany
    \/ DoGetContactDetails
    \/ DoFindSimilarCompanies
    \/ DoSearchContacts
    \/ DoCreateContact
    \/ DoUpdateContact
    \/ DoCreateDeal
    \/ DoGetDealPipeline
    \/ DoSearchCompanies
    \/ DoGetContactAnalytics
    \/ DoGetDomainTechnologies
    \/ DoFindCompaniesUsingTechnology
    \/ DoGetTechnologyTrends
    \/ DoGetMarketShare
    \/ DoCompareTechnologyStacks
    \/ DoGetCompetitorTechnologies

SpecTools == InitTools /\ [][NextTools]_vars

---------------------------------------------------------------------------
(* Claims about the memory manager                                         *)

IsStore == last.op \in {"store_conversation", "store_campaign_memory"}

\* ids held by the provider that a store operation addresses first:
\* short-term memory for conversations, long-term memory for campaigns
FirstProviderIds ==
    IF last.op = "store_campaign_memory" THEN {x.id : x \in long_db}
    ELSE IF memory_provider = "redis" THEN {x.key[2] : x \in redis.kv}
    ELSE {x.id : x \in short_db}

\* C1: store_conversation and store_campaign_memory hand one entry (one id)
\* to their two providers, return True exactly when at least one of the two
\* provider calls returned True, and never raise.
C1_StoreFanOut ==
    IsStore =>
        /\ ~last.raised
        /\ last.ok = (last.results[1].ok \/ last.results[2].ok)
        /\ last.results[1].ok => last.id \in FirstProviderIds
        /\ last.results[2].ok => last.id \in {x.id : x \in chroma}

\* C1 witness: the first provider failed, the vector provider succeeded, and
\* the operation returned True
C1_Witness ==
    /\ last.op = "store_conversation"
    /\ ~last.results[1].ok
    /\ last.results[2].ok
    /\ last.ok

IsConversation(r) == r.entry.memory_type = "conversation"
IsCampaign(r)     == r.entry.memory_type = "campaign"

\* the sequence is ordered by timestamp, most recent first
MostRecentFirst(entries) ==
    \A i, j \in DOMAIN entries :
        i < j => entries[i].timestamp >= entries[j].timestamp

\* C3: get_conversation_history(session_id, limit) returns no entry that was
\* stored under another session_id, with Redis and with SQLite.
C3_HistoryOfSessionOnly ==
    last.op = "get_conversation_history" =>
        \A i \in DOMAIN last.entries : \A r \in stored :
            (IsConversation(r) /\ r.entry.id = last.entries[i].id)
                => r.entry.session_id = last.session_id

\* conversations of the session stored in short-term memory after r was
NewerOfSession(r) ==
    {n \in stored : /\ IsConversation(n)
                    /\ n.first_ok
                    /\ n.entry.session_id = r.entry.session_id
                    /\ n.at > r.at}

\* C4: a conversation stored successfully in short-term memory is returned by
\* a later get_conversation_history of its session, most recent first, with
\* the id, content, metadata, timestamp and memory_type it was stored with,
\* when fewer than limit newer conversations of the session exist and (Redis)
\* its 24 hours have not elapsed.
C4_StoredConversationReturned ==
    (last.op = "get_conversation_history" /\ ~last.failed) =>
        /\ MostRecentFirst(last.entries)
        /\ \A r \in stored :
            (/\ IsConversation(r)
             /\ r.first_ok
             /\ r.entry.session_id = last.session_id
             /\ memory_provider = "redis" => last.at < r.at + ConversationTTL
             /\ Cardinality(NewerOfSession(r)) < last.limit)
            => \E i \in DOMAIN last.entries :
                    last.entries[i] = [k \in BaseFields |-> r.entry[k]]

\* campaigns stored in long-term memory after r was
NewerCampaigns(r) ==
    {n \in stored : IsCampaign(n) /\ n.first_ok /\ n.at > r.at}

\* C8: retrieve_campaign_insights(campaign_type=T, limit) returns only
\* campaign entries of type T (all campaign entries without a type), at most
\* limit of them, most recent first.
C8_InsightsOfTypeOnly ==
    last.op = "get_campaign_insights" =>
        /\ Len(last.entries) <= last.limit
        /\ MostRecentFirst(last.entries)
        /\ \A i \in DOMAIN last.entries : \A r \in stored :
            r.entry.id = last.entries[i].id =>
                /\ IsCampaign(r)
                /\ last.campaign_type # None
                      => r.entry.campaign_type = last.campaign_type

\* C9: after store_campaign_result returned True, get_campaign_insights
\* returns a record whose campaign_id, campaign_type, metrics and lessons are
\* the stored values.
C9_CampaignRoundTrip ==
    (/\ last.op = "get_campaign_insights"
     /\ ~last.failed
     /\ last.campaign_type = None) =>
        \A r \in stored :
            (/\ IsCampaign(r)
             /\ r.first_ok \/ r.vector_ok
             /\ Cardinality(NewerCampaigns(r)) < last.limit)
            => \E i \in DOMAIN last.insights :
                  /\ last.insights[i].campaign_id = r.entry.campaign_id
                  /\ last.insights[i].campaign_type = r.entry.campaign_type
                  /\ last.insights[i].metrics = r.entry.success_metrics
                  /\ last.insights[i].lessons = r.entry.lessons_learned

\* timestamps of the conversation entries held in short-term and vector memory
ConversationTimestamps ==
    LET live == RedisExpire(redis, last.at).kv
    IN  {FromIsoFormat(JsonLoads(x.data).timestamp) :
             x \in {y \in live : y.key[1] = "conversation"}}
        \cup {FromIsoFormat(x.timestamp) :
                 x \in {y \in short_db : y.memory_type = "conversation"}}
        \cup {FromIsoFormat(x.metadata.timestamp) :
                 x \in {y \in chroma : y.metadata.memory_type = "conversation"}}

\* C10: after cleanup_old_conversations(days) returned True no conversation
\* entry older than days days remains in short-term or vector memory.
C10_CleanupRemovesOld ==
    (last.op = "cleanup_old_conversations" /\ last.ok) =>
        \A t \in ConversationTimestamps : t >= last.cutoff

---------------------------------------------------------------------------
(* Claims about the providers                                              *)

IsProviderOp == last.op \in {"store", "retrieve", "delete", "clear"}

\* C2: no operation of the three providers raises; when the backend fails,
\* store, delete and clear return False and retrieve returns the empty list.
C2_ProvidersCatchAndLog ==
    IsProviderOp =>
        /\ ~last.raised
        /\ last.failed =>
              IF last.op = "retrieve" THEN last.entries = <<>> ELSE ~last.ok

\* C2 witness: the backend failed during a retrieve on a table that holds a
\* row matching the query
C2_Witness ==
    /\ last.op = "retrieve"
    /\ last.provider = "sqlite"
    /\ last.failed
    /\ "memory_type" \in DOMAIN last.query
    /\ \E x \in long_db : x.memory_type = last.query.memory_type

\* entries whose last store in Redis returned True and that were neither
\* deleted nor cleared since
StoredInRedis(memory_type) ==
    {r \in stored : r.provider = "redis" /\ r.entry.memory_type = memory_type}

\* C6: in RedisMemoryProvider a conversation entry is never returned once
\* 86400 seconds have passed since it was stored, and the entries of every
\* other memory type stay retrievable until they are deleted or cleared.
C6_OnlyConversationsExpire ==
    (last.op = "retrieve" /\ last.provider = "redis" /\ ~last.failed) =>
        /\ \A i \in DOMAIN last.entries :
              last.entries[i].memory_type = "conversation"
                  => last.at < last.entries[i].timestamp + ConversationTTL
        /\ \A t \in {"campaign"} :
              (/\ last.query = [memory_type |-> t]
               /\ Cardinality(StoredInRedis(t)) <= last.limit)
              => \A r \in StoredInRedis(t) :
                    \E i \in DOMAIN last.entries :
                        last.entries[i].id = r.entry.id

\* the first half of C6 alone: conversation entries are gone after 24 hours
C6_ConversationsExpire ==
    (last.op = "retrieve" /\ last.provider = "redis") =>
        \A i \in DOMAIN last.entries :
            last.entries[i].memory_type = "conversation"
                => last.at < last.entries[i].timestamp + ConversationTTL

\* a conversation entry was returned by Redis shortly before its expiry
C6_ConversationReturned ==
    /\ last.op = "retrieve"
    /\ last.provider = "redis"
    /\ last.at = ConversationTTL - 1
    /\ \E i \in DOMAIN last.entries :
          last.entries[i].memory_type = "conversation"


---------------------------------------------------------------------------
(* Claims about the rate limiter                                           *)

\* the interval the toolkits are said to keep: 60 / rate_limit seconds for
\* Apollo and HubSpot, one second for BuiltWith
ClaimedInterval ==
    IF toolkit = "builtwith" THEN 1 ELSE 60 \div rate_limit

---------------------------------------------------------------------------
(* Claims about the tool operations                                        *)

ListKeys == {"contacts", "companies", "technologies", "pipelines", "trends",
             "competitors", "domains"}
FlagKeys == {"enriched", "created", "updated", "found"}

\* the returned dictionary carries no result
EmptyResult(result) ==
    /\ \A k \in ListKeys \cap DOMAIN result : result[k] = <<>>
    /\ \A k \in FlagKeys \cap DOMAIN result : result[k] = FALSE

\* C7: no tool operation of the three toolkits raises; whenever something
\* failed underneath (no API key, HTTP error status, connection error, body
\* that is not JSON) the returned dictionary holds the key "error" and an
\* empty or null result.
C7_ErrorsReported ==
    tool_last.op # "init" =>
        /\ ~tool_last.raised
        /\ tool_last.failed =>
              /\ "error" \in DOMAIN tool_last.result
              /\ EmptyResult(tool_last.result)

\* the part of C7 that holds of every operation: nothing is raised, and the
\* operations that send a single request report its failure
C7_NeverRaises ==
    tool_last.op # "init" =>
        /\ ~tool_last.raised
        /\ (/\ tool_last.failed
            /\ tool_last.op \notin {"find_similar_companies",
                                    "compare_technology_stacks",
                                    "get_competitor_technologies"})
           => /\ "error" \in DOMAIN tool_last.result
              /\ EmptyResult(tool_last.result)


---------------------------------------------------------------------------
(* Claims about the conversation context of an agent                       *)

\* the interactions of a session that the short-term provider took
SessionInteractions(session_id) ==
    {r.entry : r \in {x \in stored :
                        /\ x.first_ok
                        /\ x.entry.memory_type = "conversation"
                        /\ x.entry.session_id = session_id}}

\* the contents of the five most recent of them, oldest first
LastFive(session_id) ==
    LET recent == Take(SortedDesc(SessionInteractions(session_id)),
                       ContextWindow)
    IN  Reverse([i \in DOMAIN recent |-> recent[i].content])

\* C11: get_conversation_context returns the fixed message when the session
\* has no stored interaction, and otherwise the contents of its five most
\* recent interactions (all of them when fewer are stored), joined by
\* newlines in chronological order.
C11_ContextIsLastFive ==
    (/\ last.op = "get_conversation_context"
     /\ ~last.failed
     /\ last.limit >= ContextWindow) =>
        last.context =
            IF SessionInteractions(last.session_id) = {}
               THEN <<"No previous conversation history.">>
               ELSE Join(LastFive(last.session_id))

\* C11 where neither the session filter nor the Redis round trip plays a
\* part: SQLite, and every interaction stored so far is of the session asked
C11_ContextIsLastFiveOneSession ==
    (/\ last.op = "get_conversation_context"
     /\ ~last.failed
     /\ last.limit >= ContextWindow
     /\ memory_provider = "sqlite"
     /\ \A x \in stored : x.entry.session_id = last.session_id) =>
        last.context =
            IF SessionInteractions(last.session_id) = {}
               THEN <<"No previous conversation history.">>
               ELSE Join(LastFive(last.session_id))


---------------------------------------------------------------------------
(* The marketing knowledge base (src/src/knowledge/knowledge_manager.py)   *)

MaxInits == 2    \* MarketingKnowledgeBase objects built in one behaviour
MaxAdds  == 2    \* add_knowledge calls of the application in one behaviour

PreviewLength  == 500     \* result["content"][:500]
EllipsisLength == 3       \* len("...")
PartOverhead   == 10      \* len("**" + "** (" + "):\n" + "\n") in the f-string
SearchLimit    == 3       \* search_knowledge(query=query, limit=3)

\* a string, by a name for its characters and its length
Text(name, len) == [name |-> name, len |-> len]

\* hashlib.md5(f"{title}_{content}"): one id per (title, content)
DocId(title, content) == <<"md5", title.name, content.name>>

\* what collection.add keeps of a document
Document(title, content, document_type, category) == [id |-> DocId(title, content), title |-> title, content |-> content, document_type |-> document_type, category |-> category]

\* default_knowledge of _load_default_knowledge, with the lengths of its
\* titles, contents and categories
DefaultKnowledge ==
    << Document(Text("Email Subject Line Best Practices", 33),
                Text("default content 1", 571), "best_practice",
                Text("email_marketing", 15)),
       Document(Text("Lead Qualification Framework (BANT)", 35),
                Text("default content 2", 494), "guide",
                Text("lead_qualification", 18)),
       Document(Text("B2B Personalization Strategies", 30),
                Text("default content 3", 646), "template",
                Text("personalization", 15)),
       Document(Text("ICP Development Framework", 25),
                Text("default content 4", 638), "guide",
                Text("target_audience", 15)),
       Document(Text("Multi-touch Campaign Sequences", 30),
                Text("default content 5", 615), "template",
                Text("campaign_sequence", 17)) >>

DefaultDocuments == Range(DefaultKnowledge)

\* the documents the application adds: two notes
UserKnowledge ==
    { Document(Text("Note", 4), Text("note 1", 479), "guide",
               Text("general", 7)),
      Document(Text("Note", 4), Text("note 2", 479), "guide",
               Text("general", 7)) }

\* max_context_length: the defaults of enhance_prompt_with_knowledge and of
\* get_context_for_query, and a smaller window
MaxContextLengths == {400, 1000, 2000}

\* whether a MarketingKnowledgeBase object exists (its constructor returned)
HasKnowledgeBase == \E i \in DOMAIN kb_tasks : kb_tasks[i].state # "raised"

\* collection.add: a document whose id is already there is not added again
CollectionAdd(coll, doc) == IF \E d \in coll : d.id = doc.id THEN coll ELSE coll \cup {doc}

\* __init__: opens the collection and schedules _initialize_default_knowledge
\* with asyncio.create_task, which raises RuntimeError when no event loop is
\* running (the module builds its global object when it is imported)
NewKnowledgeBase(loop_running) ==
    /\ Len(kb_tasks) < MaxInits
    /\ kb_tasks' = Append(kb_tasks,
                          [state |-> IF loop_running THEN "pending"
                                                     ELSE "raised",
                           empty |-> collection = {},
                           added |-> {}])
    /\ kb_last' = [op |-> "__init__", raised |-> ~loop_running,
                   before |-> collection]
    /\ UNCHANGED collection

\* the documents in the collection after _load_default_knowledge has added
\* the first n default documents
RECURSIVE LoadDefaults(_, _)
LoadDefaults(coll, n) == IF n = 0 THEN coll ELSE CollectionAdd(LoadDefaults(coll, n - 1), DefaultKnowledge[n])

\* _initialize_default_knowledge, run by the event loop: nothing in it gives
\* the loop control back, so it runs as one step.  fail = k > 0: the k-th
\* add_knowledge of the load raises, which ends the task
InitializeDefaultKnowledge(i, fail) ==
    /\ kb_tasks[i].state = "pending"
    /\ LET loads  == collection = {}
           after  == IF ~loads THEN collection
                     ELSE IF fail = 0
                          THEN LoadDefaults(collection, Len(DefaultKnowledge))
                          ELSE LoadDefaults(collection, fail - 1)
           failed == loads /\ fail # 0
       IN  /\ collection' = after
           /\ kb_tasks' = [kb_tasks EXCEPT
                             ![i] = [state |-> IF failed THEN "failed"
                                                         ELSE "done",
                                     empty |-> kb_tasks[i].empty,
                                     added |-> after \ collection]]
           /\ kb_last' = [op |-> "_initialize_default_knowledge",
                          raised |-> failed, before |-> collection]

\* add_knowledge called by the application: logs and re-raises a failure
AddKnowledge(doc, fail) ==
    /\ HasKnowledgeBase
    /\ Cardinality(collection \ DefaultDocuments) < MaxAdds
    /\ collection' = IF fail = 0 THEN CollectionAdd(collection, doc)
                                 ELSE collection
    /\ kb_last' = [op |-> "add_knowledge", raised |-> fail # 0,
                   before |-> collection, doc |-> doc]
    /\ UNCHANGED kb_tasks

\* the answers collection.query can give for n_results = limit: as many
\* documents as asked (all when there are fewer), in the order of their
\* distances to the query, which the embedding decides
SearchAnswers(limit) ==
    LET n == IF Cardinality(collection) < limit THEN Cardinality(collection)
                                               ELSE limit
    IN  {s \in [1..n -> collection] : \A i, j \in 1..n : i # j => s[i] # s[j]}

\* content_preview of one result
ContentPreview(content) ==
    IF content.len > PreviewLength
       THEN [of |-> content.name, chars |-> PreviewLength, ellipsis |-> TRUE,
             len |-> PreviewLength + EllipsisLength]
       ELSE [of |-> content.name, chars |-> content.len, ellipsis |-> FALSE,
             len |-> content.len]

\* part = f"**{title}** ({category}):\n{content_preview}\n"
Part(result) ==
    LET content_preview == ContentPreview(result.content)
    IN  [title   |-> result.title.name,
         preview |-> content_preview,
         len     |-> PartOverhead + result.title.len + result.category.len
                                  + content_preview.len]

\* the loop over knowledge_results: context_parts after the results from
\* the i-th on, given what is collected so far
RECURSIVE ContextParts(_, _, _, _, _)
ContextParts(results, i, max_context_length, context_parts, current_length) ==
    IF i > Len(results) THEN context_parts
    ELSE LET part == Part(results[i])
         IN  IF current_length + part.len > max_context_length
                THEN context_parts
                ELSE ContextParts(results, i + 1, max_context_length,
                                  Append(context_parts, part),
                                  current_length + part.len)

\* len("\n".join(context_parts))
RECURSIVE JoinedLength(_)
JoinedLength(context_parts) ==
    IF context_parts = <<>> THEN 0
    ELSE IF Len(context_parts) = 1 THEN context_parts[1].len
    ELSE context_parts[1].len + 1 + JoinedLength(Tail(context_parts))

\* RAGKnowledgeRetriever.get_context_for_query; fail = 1: the search fails,
\* which search_knowledge turns into an empty list
GetContextForQuery(results, max_context_length, fail) ==
    /\ HasKnowledgeBase
    /\ LET knowledge_results == IF fail = 0 THEN results ELSE <<>>
           context_parts == ContextParts(knowledge_results, 1,
                                         max_context_length, <<>>, 0)
       IN  kb_last' = [op |-> "get_context_for_query",
                       max_context_length |-> max_context_length,
                       results |-> knowledge_results,
                       context |->
                          IF knowledge_results = <<>>
                             THEN [kind |-> "message",
                                   text |-> "No relevant knowledge found."]
                             ELSE [kind  |-> "joined",
                                   parts |-> context_parts,
                                   len   |-> JoinedLength(context_parts)]]
    /\ UNCHANGED <<collection, kb_tasks>>

DoNewKnowledgeBase ==
    \E loop_running \in BOOLEAN :
        /\ NewKnowledgeBase(loop_running)
        /\ UNCHANGED <<memVars, rateVars, toolVars, raceVars>>

DoInitializeDefaultKnowledge ==
    \E i \in DOMAIN kb_tasks, fail \in 0..Len(DefaultKnowledge) :
        /\ InitializeDefaultKnowledge(i, fail)
        /\ UNCHANGED <<memVars, rateVars, toolVars, raceVars>>

DoAddKnowledge ==
    \E doc \in UserKnowledge, fail \in 0..1 :
        /\ AddKnowledge(doc, fail)
        /\ UNCHANGED <<memVars, rateVars, toolVars, raceVars>>

DoGetContextForQuery ==
    \E fail \in 0..1, m \in MaxContextLengths :
      \E results \in (IF fail = 0 THEN SearchAnswers(SearchLimit) ELSE {<<>>}) :
        /\ GetContextForQuery(results, m, fail)
        /\ UNCHANGED <<memVars, rateVars, toolVars, raceVars>>

\* the collection is on disk: it is empty or holds what an earlier run left
InitKnowledge ==
    /\ MemIdle
    /\ RateIdle
    /\ api_key = TRUE
    /\ tool_last = [op |-> "init"]
    /\ RaceIdle
    /\ collection \in {{}, DefaultDocuments}
    /\ kb_tasks = <<>>
    /\ kb_last = [op |-> "init"]

\* building the knowledge base and filling it
NextKnowledge ==
    \/ DoNewKnowledgeBase
    \/ DoInitializeDefaultKnowledge
    \/ DoAddKnowledge

SpecKnowledge == InitKnowledge /\ [][NextKnowledge]_vars

\* the retriever over the collections the application can have built
NextRetriever ==
    \/ DoNewKnowledgeBase
    \/ DoAddKnowledge
    \/ DoGetContextForQuery

SpecRetriever == InitKnowledge /\ [][NextRetriever]_vars

---------------------------------------------------------------------------
(* Claims about the knowledge context                                      *)

\* C12: the string get_context_for_query builds from one to three search
\* results is never longer than max_context_length, and each result
\* contributes at most the first 500 characters of its content.
C12_ContextWithinLength ==
    (/\ kb_last.op = "get_context_for_query"
     /\ kb_last.context.kind = "joined") =>
        /\ kb_last.context.len <= kb_last.max_context_length
        /\ \A i \in DOMAIN kb_last.context.parts :
              kb_last.context.parts[i].preview.chars <= PreviewLength

\* the second half of C12 alone: at most 500 characters of each content
C12_PreviewsCut ==
    (/\ kb_last.op = "get_context_for_query"
     /\ kb_last.context.kind = "joined") =>
        \A i \in DOMAIN kb_last.context.parts :
            /\ kb_last.context.parts[i].preview.chars <= PreviewLength
            /\ kb_last.context.parts[i].preview.chars
                  <= kb_last.results[i].content.len


---------------------------------------------------------------------------
(* Claims about the initialisation of the knowledge base                   *)

\* the initialisations that are over and met no storage failure
Initialised == {i \in DOMAIN kb_tasks : kb_tasks[i].state \in {"done", "raised"}}

\* C18: an initialisation of a MarketingKnowledgeBase on a collection that
\* holds a document adds no document; one on an empty collection, without
\* storage failure, puts exactly the five default documents in it.
C18_DefaultsOnlyWhenEmpty ==
    \A i \in Initialised :
        IF kb_tasks[i].empty
           THEN /\ kb_tasks[i].added = DefaultDocuments
                /\ DefaultDocuments \subseteq collection
                /\ Cardinality(DefaultDocuments) = Len(DefaultKnowledge)
           ELSE kb_tasks[i].added = {}

\* C18 for the objects whose constructor returned and whose initialisation
\* task has run to its end
C18_DefaultsWhenTaskRan ==
    \A i \in DOMAIN kb_tasks :
        (kb_tasks[i].state = "done" /\ kb_tasks[i].empty) =>
            /\ kb_tasks[i].added = DefaultDocuments
            /\ DefaultDocuments \subseteq collection

\* the first half of C18: nothing is added to a collection that is not empty
C18_NothingAddedWhenNotEmpty ==
    \A i \in DOMAIN kb_tasks :
        ~kb_tasks[i].empty => kb_tasks[i].added = {}

\* the task itself, at the time it runs: it loads the five documents into an
\* empty collection and leaves any other collection alone
C18_TaskLoadsIntoEmpty ==
    (kb_last.op = "_initialize_default_knowledge" /\ ~kb_last.raised) =>
        collection = IF kb_last.before = {} THEN DefaultDocuments
                                            ELSE kb_last.before


---------------------------------------------------------------------------
(* Claims about find_similar_companies                                     *)

\* C13: find_similar_companies returns at most limit companies and none of
\* them has the domain company_domain; when the reference company cannot be
\* enriched it returns an empty list with an error and makes no organization
\* search (the only request sent is the one of enrich_company).
C13_SimilarCompanies ==
    (tool_last.op = "find_similar_companies") =>
        LET company_domain == tool_last.args[1]
            limit          == tool_last.args[2]
            companies      == tool_last.result.companies
            enrich         == tool_last.calls[1]
        IN  /\ Len(companies) <= limit
            /\ \A i \in DOMAIN companies :
                  companies[i].domain # company_domain
            /\ enrich.op = "enrich_company" /\ enrich.arg = company_domain
            /\ ~enrich.result.enriched =>
                  /\ companies = <<>>
                  /\ "error" \in DOMAIN tool_last.result
                  /\ \A k \in DOMAIN tool_last.calls :
                        tool_last.calls[k].op # "search_organizations"
                  /\ tool_last.sent = (IF api_key THEN 1 ELSE 0)

\* the search answered with more companies than limit, the reference company
\* among them, and the answer was cut and filtered
C13_Witness ==
    /\ tool_last.op = "find_similar_companies"
    /\ Len(tool_last.calls) = 2
    /\ Len(tool_last.calls[2].result.companies) > tool_last.args[2]
    /\ \E i \in DOMAIN tool_last.calls[2].result.companies :
          tool_last.calls[2].result.companies[i].domain = tool_last.args[1]
    /\ Len(tool_last.result.companies) = tool_last.args[2]

\* the reference company was not found and nothing was searched
C13_WitnessNotEnriched ==
    /\ tool_last.op = "find_similar_companies"
    /\ ~tool_last.calls[1].result.enriched
    /\ tool_last.sent = 1


---------------------------------------------------------------------------
(* Claims about compare_technology_stacks                                  *)

\* C14: compare_technology_stacks looks up the first 10 domains of the list
\* it is given, in the order of the list, and no other; it sends at most 10
\* API requests.
C14_FirstTenLookedUp ==
    (tool_last.op = "compare_technology_stacks") =>
        LET domains == tool_last.args[1]
            n == IF Len(domains) > MaxCompared THEN MaxCompared
                                               ELSE Len(domains)
        IN  /\ Len(tool_last.calls) = n
            /\ \A i \in 1..n :
                  /\ tool_last.calls[i].op = "get_domain_technologies"
                  /\ tool_last.calls[i].arg = domains[i]
            /\ tool_last.sent <= MaxCompared
            /\ tool_last.sent = (IF api_key THEN n ELSE 0)
            /\ Len(sends) <= MaxCompared

\* a list of more than ten domains was compared and ten requests were sent
C14_Witness ==
    /\ tool_last.op = "compare_technology_stacks"
    /\ Len(tool_last.args[1]) > MaxCompared
    /\ tool_last.args[1][MaxCompared + 1] # tool_last.args[1][MaxCompared]
    /\ tool_last.sent = MaxCompared
    /\ Len(sends) = MaxCompared


\* the lookups of the last comparison that returned a profile
GoodLookups == {i \in DOMAIN tool_last.calls : "error" \notin DOMAIN tool_last.calls[i].result}

\* the domains that were successfully profiled
Profiled == {tool_last.calls[i].arg : i \in GoodLookups}

\* whether the profile of domain d lists technology t
Uses(d, t) ==
    \E i \in GoodLookups :
        /\ tool_last.calls[i].arg = d
        /\ \E k \in DOMAIN tool_last.calls[i].result.technologies :
              tool_last.calls[i].result.technologies[k].name = t

\* the technologies of the profiles
ProfiledTechnologies == {t \in Technologies \cup {"Nginx"} : \E d \in Profiled : Uses(d, t)}

\* unique_technologies[d], empty when the dictionary has no key d
UniqueOf(d) ==
    IF d \in DOMAIN tool_last.result.unique_technologies
       THEN tool_last.result.unique_technologies[d]
       ELSE {}

\* the first half of C15: a technology is in common_technologies exactly
\* when every successfully profiled domain uses it
CommonIsShared ==
    \A t \in ProfiledTechnologies :
        t \in tool_last.result.common_technologies
            <=> \A d \in Profiled : Uses(d, t)

\* the second half: a technology is in unique_technologies[d] exactly when d
\* is the only successfully profiled domain that uses it
UniqueIsAlone ==
    \A d \in Profiled, t \in ProfiledTechnologies :
        t \in UniqueOf(d) <=> {e \in Profiled : Uses(e, t)} = {d}

\* the domains whose lookups returned an error are neither in domains nor in
\* the matrix
ErroredAbsent ==
    /\ Range(tool_last.result.domains) = Profiled
    /\ DOMAIN tool_last.result.unique_technologies \subseteq Profiled
    /\ DOMAIN tool_last.result.technology_matrix = ProfiledTechnologies
    /\ \A t \in ProfiledTechnologies :
          /\ DOMAIN tool_last.result.technology_matrix[t] = Profiled
          /\ \A d \in Profiled :
                tool_last.result.technology_matrix[t][d] = Uses(d, t)

\* C15: in the comparison returned by compare_technology_stacks, for every
\* number of successfully profiled domains from one up, common_technologies
\* holds the technologies every profiled domain uses, unique_technologies[d]
\* those only d uses, and the domains whose lookup failed appear nowhere.
C15_CommonAndUnique ==
    (tool_last.op = "compare_technology_stacks" /\ Profiled # {}) =>
        /\ CommonIsShared
        /\ UniqueIsAlone
        /\ ErroredAbsent

\* C15 without the technologies unique to a domain
C15_CommonAndAbsent ==
    (tool_last.op = "compare_technology_stacks" /\ Profiled # {}) =>
        /\ CommonIsShared
        /\ ErroredAbsent

\* C15 when at least two domains were profiled
C15_TwoOrMoreProfiled ==
    (tool_last.op = "compare_technology_stacks" /\ Cardinality(Profiled) >= 2) =>
        /\ CommonIsShared
        /\ UniqueIsAlone
        /\ ErroredAbsent


---------------------------------------------------------------------------
(* Claims about get_competitor_technologies                                *)

\* C16: the competitors list returned by get_competitor_technologies has at
\* most limit entries, never holds reference_domain, holds each domain at
\* most once, is ordered by non-increasing number of shared technologies,
\* and is based on at most three key technologies of the reference domain.
C16_CompetitorsRanked ==
    (/\ tool_last.op = "get_competitor_technologies"
     /\ "competitors" \in DOMAIN tool_last.result) =>
        LET reference_domain == tool_last.args[1]
            limit            == tool_last.args[2]
            competitors      == tool_last.result.competitors
            based_on         == tool_last.result.analysis_based_on
        IN  /\ Len(competitors) <= limit
            /\ \A i \in DOMAIN competitors :
                  competitors[i].domain # reference_domain
            /\ \A i, j \in DOMAIN competitors :
                  i # j => competitors[i].domain # competitors[j].domain
            /\ \A i, j \in DOMAIN competitors :
                  i < j => Len(competitors[i].shared_technologies)
                              >= Len(competitors[j].shared_technologies)
            /\ Len(based_on) <= MaxKeyTechnologies
            /\ \A i \in DOMAIN competitors :
                  Range(competitors[i].shared_technologies)
                      \subseteq Range(based_on)
            /\ tool_last.sent <= 1 + MaxKeyTechnologies + limit

\* the reference domain has more than three key technologies and is itself
\* listed as a user of one of the three taken; a domain found later shares
\* more technologies than one found before it and is ranked first
C16_Witness ==
    /\ tool_last.op = "get_competitor_technologies"
    /\ "competitors" \in DOMAIN tool_last.result
    /\ Len(EveryKeyTechnology(RemoteTech(tool_last.args[1]))) > MaxKeyTechnologies
    /\ Len(tool_last.result.analysis_based_on) = MaxKeyTechnologies
    /\ \E k \in DOMAIN tool_last.result.analysis_based_on :
          tool_last.args[1]
              \in Range(RemoteUsers(tool_last.result.analysis_based_on[k]))
    /\ Len(tool_last.result.competitors) = tool_last.args[2]
    /\ Len(tool_last.result.competitors) >= 2
    /\ tool_last.result.competitors[1].domain = "c.com"
    /\ Len(tool_last.result.competitors[1].shared_technologies)
          > Len(tool_last.result.competitors[2].shared_technologies)


---------------------------------------------------------------------------
(* Claims about two concurrent callers of one toolkit instance             *)

\* C17: when two threads call _make_request on the same toolkit instance,
\* in every interleaving the send times of any two HTTP requests differ by
\* at least the minimum interval of the toolkit.
C17_ConcurrentSendsSpaced ==
    \A i, j \in DOMAIN sends :
        i < j => sends[j].at - sends[i].at >= ClaimedInterval

\* C17 for the behaviours in which every request is sent at the very time of
\* its stamp, so that no delay between stamp and send plays a part
C17_ConcurrentSendsSpacedNoDelay ==
    (\A i \in DOMAIN sends : sends[i].at = sends[i].stamped) =>
        \A i, j \in DOMAIN sends :
            i < j => sends[j].at - sends[i].at >= ClaimedInterval

=============================================================================
